---------------------------- MODULE Spec2Model ----------------------------
(***************************************************************************)
(* The OpenObserve logs adapter (observability-logs-openobserve):          *)
(*   cmd main       startup: LoadConfig, NewClient, health probe, serve    *)
(*   internal/app   LogsHandler: HandleLogsQuery, HandleCreateAlert,       *)
(*                  HandleDeleteAlert                                      *)
(*   openobserve    Client: executeSearchQuery, GetComponentLogs,          *)
(*                  CreateAlert, DeleteAlert, getAlertIDByName             *)
(*   init/setup-openobserve.sh   the init script's health-check loop       *)
(*                                                                         *)
(* A worker is one goroutine of net/http serving one inbound request.  A   *)
(* worker's steps are split at the backend round trips: issuing a request  *)
(* (http.NewRequestWithContext .. httpClient.Do entered) and receiving its *)
(* answer (httpClient.Do returned .. the function's return).  The backend  *)
(* (OpenObserve) is the environment: it holds the alerts, assigns their    *)
(* ids, and chooses every answer.                                          *)
(***************************************************************************)
EXTENDS Integers, Sequences, FiniteSets, TLC

\* ------------------------------------------------------------------ bounds
NumWorkers == 2        \* concurrently served inbound requests
MaxAlerts == 2         \* alerts the backend ever creates (ids 1..MaxAlerts)
MaxStrLen == 2         \* length of the strings the query builder is called on
MaxHits == 2           \* hits of a search response the normalizer is called on

\* ------------------------------------------------------- program constants
StatusOK == 200
StatusCreated == 201
StatusNoContent == 204
StatusBadRequest == 400
StatusInternalServerError == 500
MAX_RETRIES == 30
RETRY_INTERVAL == 10

Workers == 1..NumWorkers
Names == {"a", "b"}                    \* alert names on the backend
RuleNames == {"", "a"}                 \* {ruleName} of an inbound path

VARIABLES
  env,          \* the process environment read by LoadConfig
  mainPc,       \* main: "start", "probe", "serving", "exited"
  exitCode,     \* main: the status os.Exit was called with (0: not exited)
  cfg,          \* main: the *Config LoadConfig returned (NoConfig before, and on error)
  client,       \* the *Client built by NewClient (NoClient before)
  probe,        \* main: the answer to the one GET /healthz (NoAnswer before)
  alerts,       \* backend: the alert listing, in listing order
  nextId,       \* backend: the next alert_id it assigns
  pc,           \* worker: position in its handler
  req,          \* worker: the inbound request being served
  sent,         \* worker: backend requests issued for req, in order
  outcome,      \* worker: per issued request, "ok" | "fail" | "pending"
  answer,       \* worker: what httpClient.Do and io.ReadAll last returned
  alertID,      \* worker: the id getAlertIDByName returned
  err,          \* worker: the error the Client method returned
  httpStatus,   \* worker: the status written to the inbound caller (0: none)
  result,       \* worker: the body written to the inbound caller
  logged,       \* worker: the log records written while serving req, in order
  cancelled,    \* worker: whether the Done channel of req's context is closed
  scriptPc,     \* setup script: "loop", "sleep", "configure", "exit1"
  attempt,      \* setup script: $i of the for loop
  httpCode,     \* setup script: $HTTP_CODE of the last attempt
  bodyOk,       \* setup script: whether $BODY matched the "status":"ok" grep
  healthy,      \* setup script: $HEALTHY
  slept,        \* setup script: seconds spent in sleep so far
  builderPc,    \* query builder run alone: "idle", "ready", "built"
  input,        \* query builder run alone: the arguments of the call
  output,       \* query builder run alone: the text the call produced
  document      \* query builder run alone: the document the call produced

mainVars == <<env, mainPc, exitCode, cfg, client, probe>>
backendVars == <<alerts, nextId>>
workerVars == <<pc, req, sent, outcome, answer, alertID, err, httpStatus, result, logged, cancelled>>
scriptVars == <<scriptPc, attempt, httpCode, bodyOk, healthy, slept>>
builderVars == <<builderPc, input, output, document>>
vars == <<mainVars, backendVars, workerVars, scriptVars, builderVars>>

\* ------------------------------------------------------------------ values
NoClient == [baseURL |-> "", org |-> "", stream |-> "", user |-> "", token |-> ""]
NoErr == [kind |-> "none", code |-> 0, body |-> "", wraps |-> "none"]
\* ComponentLogsParams, part_006 lines 19-29.
ComponentLogsParams(componentIDs, environmentID, projectID, startTime, endTime, searchPhrase, logLevels, limit, sortOrder) ==
  [ComponentIDs |-> componentIDs, EnvironmentID |-> environmentID, ProjectID |-> projectID,
   StartTime |-> startTime, EndTime |-> endTime, SearchPhrase |-> searchPhrase,
   LogLevels |-> logLevels, Limit |-> limit, SortOrder |-> sortOrder]

\* A time.Time is counted in thousands of seconds from the Unix epoch.  The
\* zero time.Time, which a JSON body without the field decodes to, is
\* January 1 of year 1.
ZeroTime == 0 - 62135597

NoParams == ComponentLogsParams(<<>>, <<>>, <<>>, ZeroTime, ZeroTime, <<>>, <<>>, 0, "")

NoReq == [kind |-> "none", ruleName |-> "", body |-> "none", name |-> "", params |-> NoParams]
NoResult == [kind |-> "none", logs |-> <<>>, totalCount |-> 0, took |-> 0, message |-> ""]

\* An answer of the backend as the Go HTTP client sees it: net is "ok" (Do and
\* io.ReadAll returned nil), "transport" (Do returned an error) or "read"
\* (io.ReadAll returned an error); json is whether the body unmarshals.
Answer(net, status, json, text, list, search) ==
  [net |-> net, status |-> status, json |-> json, text |-> text, list |-> list, search |-> search]
NoSearch == [hits |-> <<>>, total |-> 0, took |-> 0]
NoAnswer == Answer("none", 0, FALSE, "", <<>>, NoSearch)
TransportFailure == Answer("transport", 0, FALSE, "", <<>>, NoSearch)
ReadFailure(status) == Answer("read", status, FALSE, "", <<>>, NoSearch)
\* What a worker keeps of an answer: the transport result, status and body text.
Received(a) == [net |-> a.net, status |-> a.status, json |-> a.json, text |-> a.text]
NoneReceived == Received(NoAnswer)
\* An answer with a status the caller rejects, and its body.
Rejected(status, text) == Answer("ok", status, FALSE, text, <<>>, NoSearch)

\* ------------------------------------------------------------ main startup
getEnv(e, key, defaultValue) == IF e[key] # "" THEN e[key] ELSE defaultValue

\* strconv.Atoi on the values SERVER_PORT takes in the model.
AtoiOk(s) == s \in {"9098", "8080"}

\* Mutant: the password is not required.
LoadConfigErrNoPassword(e) ==
  IF getEnv(e, "OPENOBSERVE_URL", "") = "" THEN "OPENOBSERVE_URL"
  ELSE IF getEnv(e, "OPENOBSERVE_USER", "") = "" THEN "OPENOBSERVE_USER"
  ELSE IF ~AtoiOk(getEnv(e, "SERVER_PORT", "9098")) THEN "SERVER_PORT"
  ELSE "nil"

\* LoadConfig, part_004 lines 48-62: the error it returns ("nil": none).
LoadConfigErr(e) ==
  IF getEnv(e, "OPENOBSERVE_URL", "") = "" THEN "OPENOBSERVE_URL"
  ELSE IF getEnv(e, "OPENOBSERVE_USER", "") = "" THEN "OPENOBSERVE_USER"
  ELSE IF getEnv(e, "OPENOBSERVE_PASSWORD", "") = "" THEN "OPENOBSERVE_PASSWORD"
  ELSE IF ~AtoiOk(getEnv(e, "SERVER_PORT", "9098")) THEN "SERVER_PORT"
  ELSE "nil"

LoadConfig(e) ==
  [ServerPort |-> getEnv(e, "SERVER_PORT", "9098"),
   OpenObserveURL |-> getEnv(e, "OPENOBSERVE_URL", ""),
   OpenObserveOrg |-> getEnv(e, "OPENOBSERVE_ORG", "default"),
   OpenObserveStream |-> getEnv(e, "OPENOBSERVE_STREAM", "default"),
   OpenObserveUser |-> getEnv(e, "OPENOBSERVE_USER", ""),
   OpenObservePassword |-> getEnv(e, "OPENOBSERVE_PASSWORD", "")]

\* The nil *Config.
NoConfig ==
  [ServerPort |-> "", OpenObserveURL |-> "", OpenObserveOrg |-> "", OpenObserveStream |-> "",
   OpenObserveUser |-> "", OpenObservePassword |-> ""]

\* strings.TrimSuffix(baseURL, "/") on the URLs of the model.
TrimSuffixSlash(u) == IF u = "http://oo/" THEN "http://oo" ELSE u

NewClient(baseURL, org, stream, user, token) ==
  [baseURL |-> TrimSuffixSlash(baseURL), org |-> org, stream |-> stream,
   user |-> user, token |-> token]

Env(url, user, password, port, org, stream) ==
  [OPENOBSERVE_URL |-> url, OPENOBSERVE_USER |-> user, OPENOBSERVE_PASSWORD |-> password,
   SERVER_PORT |-> port, OPENOBSERVE_ORG |-> org, OPENOBSERVE_STREAM |-> stream]

\* The environments a run of the adapter starts from.
Envs ==
  {Env("http://oo/", "root", "pw", "", "", "logs"),
   Env("http://oo", "root", "", "9098", "org1", ""),
   Env("", "root", "pw", "8080", "org1", "logs"),
   Env("http://oo", "", "pw", "", "", ""),
   Env("http://oo", "root", "pw", "http", "org1", "logs")}

\* The environments the startup alone is run from: more complete ones, which
\* leave other optional values unset.
StartupEnvs ==
  Envs \cup {Env("http://oo", "root", "pw", "8080", "org1", ""),
              Env("http://oo/", "admin", "s3", "9098", "", ""),
              Env("http://oo", "root", "pw", "", "org1", "logs")}

\* main, lines 22-52: LoadConfig, os.Exit(1) on its error, else NewClient.
Main_LoadConfig ==
  /\ mainPc = "start"
  /\ IF LoadConfigErr(env) # "nil"
     THEN /\ mainPc' = "exited"
          /\ exitCode' = 1
          /\ cfg' = cfg
          /\ client' = client
     ELSE /\ mainPc' = "probe"
          /\ exitCode' = exitCode
          /\ cfg' = LoadConfig(env)
          /\ client' = NewClient(cfg'.OpenObserveURL, cfg'.OpenObserveOrg,
                                  cfg'.OpenObserveStream, cfg'.OpenObserveUser,
                                  cfg'.OpenObservePassword)
  /\ UNCHANGED <<env, probe, backendVars, workerVars, scriptVars, builderVars>>

\* The answers GET /healthz can get.  text is the decoded "status" member when
\* it is a string; "#nonstring" stands for a status member of another JSON type
\* and "#absent" for a JSON object without one.
HealthAnswers ==
  {TransportFailure, ReadFailure(StatusOK)}
  \cup {Answer("ok", s, TRUE, t, <<>>, NoSearch) :
          s \in {StatusOK, 503}, t \in {"ok", "degraded", "#nonstring", "#absent"}}
  \cup {Answer("ok", s, FALSE, "", <<>>, NoSearch) : s \in {StatusOK, 503}}

\* Mutant: the probe trusts a 200 without reading the body's status.
HealthProbeOkStatusOnly(a) == a.net = "ok" /\ a.status = StatusOK

\* main, lines 61-93: the checks on the health answer, in the order of the code.
HealthProbeOk(a) ==
  /\ a.net = "ok"
  /\ a.status = StatusOK
  /\ a.json
  /\ a.text \notin {"#nonstring", "#absent"}
  /\ a.text = "ok"

\* main, lines 58-106: one GET /healthz; os.Exit(1) unless it is healthy, else
\* the handlers and the server are created and srv.Start() runs.
Main_HealthProbe ==
  /\ mainPc = "probe"
  /\ \E a \in HealthAnswers :
       /\ probe' = a
       /\ IF HealthProbeOk(a)
          THEN mainPc' = "serving" /\ exitCode' = exitCode
          ELSE mainPc' = "exited" /\ exitCode' = 1
  /\ UNCHANGED <<env, cfg, client, backendVars, workerVars, scriptVars, builderVars>>

\* ----------------------------------------------------------------- backend
\* One entry of the alert listing, {alert_id, name}.  alert_id 0 is the empty
\* string; the backend assigns 1, 2, ...
Alert(id, name) == [alert_id |-> id, name |-> name]

RECURSIVE RemoveID(_, _)
RemoveID(list, id) ==
  IF list = <<>> THEN <<>>
  ELSE IF Head(list).alert_id = id THEN RemoveID(Tail(list), id)
  ELSE <<Head(list)>> \o RemoveID(Tail(list), id)

HasID(list, id) == \E i \in 1..Len(list) : list[i].alert_id = id
HasName(list, name) == \E i \in 1..Len(list) : list[i].name = name

\* What the backend can do with GET /api/v2/{org}/alerts: the answer.
ListAnswers(als) ==
  {TransportFailure, ReadFailure(StatusOK)}
  \cup {Rejected(401, "e1"), Rejected(StatusInternalServerError, "e2")}
  \cup {Answer("ok", StatusOK, FALSE, "garbage", <<>>, NoSearch)}
  \cup {Answer("ok", StatusOK, TRUE, "", als, NoSearch)}

\* What the backend can do with DELETE /api/v2/{org}/alerts/{id}: pairs of the
\* answer and the listing afterwards.  A transport failure may strike before
\* or after the backend acted.
DeleteOutcomes(als, id) ==
  IF HasID(als, id)
  THEN {<<Answer("ok", s, TRUE, "", <<>>, NoSearch), RemoveID(als, id)>> : s \in {StatusOK, StatusNoContent}}
       \cup {<<Rejected(StatusInternalServerError, "e2"), als>>}
       \cup {<<TransportFailure, als>>, <<TransportFailure, RemoveID(als, id)>>,
             <<ReadFailure(StatusOK), RemoveID(als, id)>>}
  ELSE {<<Rejected(404, "e1"), als>>, <<TransportFailure, als>>}

\* ------------------------------------------------------------------ Client
Err(kind, code, body) == [kind |-> kind, code |-> code, body |-> body, wraps |-> "none"]

\* Mutant: the cause is dropped from the error DeleteAlert returns.
WrapFindAlertOpaque(e) ==
  [kind |-> "opaque", code |-> 0, body |-> "", wraps |-> "failed to find alert"]

\* fmt.Errorf("failed to find alert %q: %w", alertName, err)
WrapFindAlert(e) == [e EXCEPT !.wraps = "failed to find alert"]

\* Mutant: the listing GET is sent without SetBasicAuth.
RequestAnonymousListing(c, method, path, id, doc) ==
  [method |-> method, url |-> <<c.baseURL, "/api/", path, c.org>>, id |-> id,
   user |-> IF method = "GET" THEN "" ELSE c.user,
   token |-> IF method = "GET" THEN "" ELSE c.token, doc |-> doc]

\* Mutant: the resolved alert id is kept in one place that all requests share
\* (the first worker's), and the DELETE is built from it.
RequestSharedID(c, method, path, id, doc) ==
  [method |-> method, url |-> <<c.baseURL, "/api/", path, c.org>>,
   id |-> IF method = "DELETE" THEN alertID[1] ELSE id,
   user |-> c.user, token |-> c.token, doc |-> doc]

\* A backend request as httpClient.Do gets it.  A request counts as issued when
\* Do is entered, whatever Do then returns.
Request(c, method, path, id, doc) ==
  [method |-> method, url |-> <<c.baseURL, "/api/", path, c.org>>, id |-> id,
   user |-> c.user, token |-> c.token, doc |-> doc]
NoDoc == [kind |-> "none"]

\* Mutant: the scan falls off the list without the "not found" error.
RECURSIVE ScanListNoError(_, _)
ScanListNoError(list, name) ==
  IF list = <<>> THEN <<0, NoErr>>
  ELSE IF Head(list).name = name THEN <<Head(list).alert_id, NoErr>>
  ELSE ScanListNoError(Tail(list), name)

\* Mutant: the scan keeps going and returns the last match.
RECURSIVE ScanListLast(_, _)
ScanListLast(list, name) ==
  IF list = <<>> THEN <<0, Err("notfound", 0, name)>>
  ELSE LET rest == ScanListLast(Tail(list), name)
       IN IF rest[2] = NoErr THEN rest
          ELSE IF Head(list).name = name THEN <<Head(list).alert_id, NoErr>>
          ELSE rest

\* getAlertIDByName, lines 298-304: the linear scan of result.List.
RECURSIVE ScanList(_, _)
ScanList(list, name) ==
  IF list = <<>> THEN <<0, Err("notfound", 0, name)>>
  ELSE IF Head(list).name = name THEN <<Head(list).alert_id, NoErr>>
  ELSE ScanList(Tail(list), name)

\* getAlertIDByName, lines 273-304: from the answer of Do to the return value,
\* the pair (id, error).
getAlertIDByName(a, name) ==
  IF a.net = "transport" THEN <<0, Err("transport", 0, "")>>
  ELSE IF a.net = "read" THEN <<0, Err("read", 0, "")>>
  ELSE IF a.status # StatusOK THEN <<0, Err("status", a.status, a.text)>>
  ELSE IF ~a.json THEN <<0, Err("unmarshal", 0, "")>>
  ELSE ScanList(a.list, name)

\* Mutant: a DELETE answered 404 counts as done.
DeleteAlertResultIdempotent(a) ==
  IF a.net = "transport" THEN Err("transport", 0, "")
  ELSE IF a.net = "read" THEN Err("read", 0, "")
  ELSE IF a.status # StatusOK /\ a.status # StatusNoContent /\ a.status # 404
       THEN Err("status", a.status, a.text)
  ELSE NoErr

\* Mutant: only 200 counts as success.
DeleteAlertResultOnly200(a) ==
  IF a.net = "transport" THEN Err("transport", 0, "")
  ELSE IF a.net = "read" THEN Err("read", 0, "")
  ELSE IF a.status # StatusOK THEN Err("status", a.status, a.text)
  ELSE NoErr

\* DeleteAlert, lines 238-260: from the answer of Do to the returned error.
DeleteAlertResult(a) ==
  IF a.net = "transport" THEN Err("transport", 0, "")
  ELSE IF a.net = "read" THEN Err("read", 0, "")
  ELSE IF a.status # StatusOK /\ a.status # StatusNoContent THEN Err("status", a.status, a.text)
  ELSE NoErr

\* ------------------------------------------------------------------ logging
\* err.Error(): the text of an error of the client, as the pieces its format
\* strings put together.  "#cause" is the text of the wrapped transport, read
\* or decode error, which the standard library words.
ErrorText(e, alertName) ==
  (IF e.wraps = "failed to find alert" THEN <<"failed to find alert ", alertName, ": ">> ELSE <<>>)
  \o (CASE e.kind = "transport" -> <<"failed to execute request: ", "#cause">>
        [] e.kind = "read" -> <<"failed to read response body: ", "#cause">>
        [] e.kind = "status" -> <<"openobserve returned status ", e.code, ": ", e.body>>
        [] e.kind = "unmarshal" -> <<"failed to unmarshal response: ", "#cause">>
        [] e.kind = "notfound" -> <<"alert ", e.body, " not found">>
        [] OTHER -> <<>>)

\* One slog record: who wrote it, its message and its attributes.
Log(logger, msg, attrs) == [logger |-> logger, msg |-> msg, attrs |-> attrs]

\* h.logger.Error(msg, slog.Any("error", err)) of a handler.
HandlerLog(msg, e, alertName) ==
  IF e = NoErr THEN <<>> ELSE <<Log("handler", msg, ErrorText(e, alertName))>>

\* What executeSearchQuery, CreateAlert and DeleteAlert log for the error e of
\* their own backend call (part_006 lines 106-127, 192-208, 240-256); op is
\* "search", "create" or "delete".  getAlertIDByName logs nothing.
ClientLog(op, e) ==
  CASE e = NoErr -> <<>>
    [] e.kind = "transport" ->
         <<Log("client",
               CASE op = "search" -> "Failed to execute search request against OpenObserve"
                 [] op = "create" -> "Failed to execute alert creation request"
                 [] OTHER -> "Failed to execute alert deletion request",
               <<"#cause">>)>>
    [] e.kind = "read" ->
         <<Log("client",
               IF op = "search" THEN "Failed to read response body returned by OpenObserve"
               ELSE "Failed to read response body",
               <<"#cause">>)>>
    [] e.kind = "status" -> <<Log("client", "OpenObserve returned error", <<e.code, e.body>>)>>
    [] e.kind = "unmarshal" ->
         <<Log("client", "Failed to unmarshal response from OpenObserve", <<"#cause">>)>>
    [] OTHER -> <<>>

\* ---------------------------------------------------------------- handlers
Message(kind, text) ==
  [kind |-> kind, logs |-> <<>>, totalCount |-> 0, took |-> 0, message |-> text]

\* net/http starts a goroutine per inbound request once the server runs; of
\* the free workers, the one with the lowest index stands for it.
\* A handler's return (Finish) touches nothing but its own goroutine, so it
\* commutes with every step of the other workers: a worker steps only once
\* the other workers that have answered have returned.
Returned(w) == \A v \in Workers \ {w} : pc[v] # "done"

Accepting(w) ==
  /\ mainPc = "serving"
  /\ pc[w] = "idle"
  /\ \A v \in Workers : v < w => pc[v] # "idle"
  /\ Returned(w)

\* Mutant: a name that is not in the listing is answered 404.
DeleteAlertResponseNotFound404(e) ==
  IF e # NoErr /\ e.kind = "notfound" THEN <<404, Message("text", "Alert not found")>>
  ELSE IF e # NoErr THEN <<StatusInternalServerError, Message("text", "Failed to delete alert")>>
  ELSE <<StatusOK, Message("json", "Alert deleted successfully")>>

\* Mutant: a name the listing does not hold is blamed on the caller.
DeleteAlertResponseBlamesCaller(e) ==
  IF e # NoErr /\ e.kind = "notfound" THEN <<StatusBadRequest, Message("text", "No such alert")>>
  ELSE IF e # NoErr THEN <<StatusInternalServerError, Message("text", "Failed to delete alert")>>
  ELSE <<StatusOK, Message("json", "Alert deleted successfully")>>

\* What the handler writes once DeleteAlert returned e (lines 117-125).
DeleteAlertResponse(e) ==
  IF e # NoErr THEN <<StatusInternalServerError, Message("text", "Failed to delete alert")>>
  ELSE <<StatusOK, Message("json", "Alert deleted successfully")>>

\* HandleDeleteAlert, lines 109-115, then DeleteAlert and getAlertIDByName up
\* to the listing GET entering httpClient.Do.
HandleDeleteAlert(w) ==
  /\ Accepting(w)
  /\ \E ruleName \in RuleNames :
       /\ req' = [req EXCEPT ![w] = [kind |-> "delete", ruleName |-> ruleName, body |-> "none", name |-> "",
                                     params |-> NoParams]]
       /\ IF ruleName = ""
          THEN /\ pc' = [pc EXCEPT ![w] = "done"]
               /\ httpStatus' = [httpStatus EXCEPT ![w] = StatusBadRequest]
               /\ result' = [result EXCEPT ![w] = Message("text", "Rule name is required")]
               /\ logged' = [logged EXCEPT ![w] = <<Log("handler", "Rule name is required", <<>>)>>]
               /\ UNCHANGED <<sent, outcome>>
          ELSE /\ pc' = [pc EXCEPT ![w] = "getAlertIDByName"]
               /\ sent' = [sent EXCEPT ![w] = <<Request(client, "GET", "v2/alerts", 0, NoDoc)>>]
               /\ outcome' = [outcome EXCEPT ![w] = <<"pending">>]
               /\ UNCHANGED <<httpStatus, result, logged>>
  /\ UNCHANGED <<answer, alertID, err, cancelled, mainVars, backendVars, scriptVars, builderVars>>

\* Mutant: the error of getAlertIDByName is dropped.
DeleteAlertProceedsAlways(e) == TRUE

\* DeleteAlert, lines 220-222: whether it goes on after getAlertIDByName
\* returned the error e.
DeleteAlertProceeds(e) == e = NoErr

\* Mutant: the backend requests are built without the inbound request's
\* context, so its cancellation does not reach them.
DoReturnsDetached(w, a) == TRUE

\* httpClient.Do(req) for a req made by http.NewRequestWithContext(ctx, ...)
\* (part_006 lines 95, 179, 228, 267): whether it can return a, the answer
\* as the caller gets it.  Once ctx is cancelled, a Do that has not returned
\* returns ctx's error.
DoReturns(w, a) == cancelled[w] => a.net = "transport"

\* How a backend call ended for the function that made it.
Outcome(e) == IF e = NoErr THEN "ok" ELSE "fail"

\* getAlertIDByName from the return of httpClient.Do (lines 273-304), then
\* DeleteAlert: on an error it returns at once (lines 220-222) and the handler
\* answers; otherwise the DELETE for the resolved id enters httpClient.Do
\* (lines 225-238).
DeleteAlert_Resolve(w) ==
  /\ pc[w] = "getAlertIDByName"
  /\ Returned(w)
  /\ \E a \in ListAnswers(alerts) :
       LET r == getAlertIDByName(a, req[w].ruleName)
       IN /\ DoReturns(w, a)
          /\ answer' = [answer EXCEPT ![w] = Received(a)]
          /\ alertID' = [alertID EXCEPT ![w] = r[1]]
          /\ IF ~DeleteAlertProceeds(r[2])
             THEN /\ err' = [err EXCEPT ![w] = WrapFindAlert(r[2])]
                  /\ outcome' = [outcome EXCEPT ![w] = <<Outcome(r[2])>>]
                  /\ sent' = sent
                  /\ pc' = [pc EXCEPT ![w] = "done"]
                  /\ httpStatus' = [httpStatus EXCEPT ![w] = DeleteAlertResponse(WrapFindAlert(r[2]))[1]]
                  /\ result' = [result EXCEPT ![w] = DeleteAlertResponse(WrapFindAlert(r[2]))[2]]
                  /\ logged' = [logged EXCEPT ![w] =
                                  HandlerLog("Failed to delete alert", WrapFindAlert(r[2]),
                                             req[w].ruleName)]
             ELSE /\ err' = err
                  /\ outcome' = [outcome EXCEPT ![w] = <<Outcome(r[2]), "pending">>]
                  /\ sent' = [sent EXCEPT ![w] = Append(@, Request(client, "DELETE", "v2/alerts/", r[1], NoDoc))]
                  /\ pc' = [pc EXCEPT ![w] = "DeleteAlert"]
                  /\ UNCHANGED <<httpStatus, result, logged>>
  /\ UNCHANGED <<req, cancelled, mainVars, backendVars, scriptVars, builderVars>>

\* DeleteAlert from the return of httpClient.Do for the DELETE (lines 238-260),
\* then the handler's answer (lines 117-125).  The backend acts on the DELETE
\* here.
DeleteAlert_Return(w) ==
  /\ pc[w] = "DeleteAlert"
  /\ Returned(w)
  /\ \E o \in DeleteOutcomes(alerts, alertID[w]) :
       LET e == DeleteAlertResult(o[1])
       IN /\ DoReturns(w, o[1])
          /\ alerts' = o[2]
          /\ answer' = [answer EXCEPT ![w] = Received(o[1])]
          /\ err' = [err EXCEPT ![w] = e]
          /\ outcome' = [outcome EXCEPT ![w] = <<outcome[w][1], Outcome(e)>>]
          /\ httpStatus' = [httpStatus EXCEPT ![w] = DeleteAlertResponse(e)[1]]
          /\ result' = [result EXCEPT ![w] = DeleteAlertResponse(e)[2]]
          /\ logged' = [logged EXCEPT ![w] =
                          ClientLog("delete", e)
                          \o HandlerLog("Failed to delete alert", e, req[w].ruleName)]
  /\ pc' = [pc EXCEPT ![w] = "done"]
  /\ UNCHANGED <<req, sent, alertID, cancelled, nextId, mainVars, scriptVars, builderVars>>

\* ----------------------------------------------------------- query builder
\* A Go string is a sequence of one-character strings; formatted text is the
\* concatenation of its pieces.
RECURSIVE ReplaceAll(_, _, _)
ReplaceAll(value, old, new) ==
  IF value = <<>> THEN <<>>
  ELSE (IF Head(value) = old THEN new ELSE <<Head(value)>>) \o ReplaceAll(Tail(value), old, new)

\* Mutant: single quotes are left as they are.
escapeSQLStringBackslashOnly(value) == ReplaceAll(value, "\\", <<"\\", "\\">>)

\* Mutant: backslashes are left as they are.
escapeSQLStringQuotesOnly(value) == ReplaceAll(value, "'", <<"'", "'">>)

\* escapeSQLString, queries.go lines 15-19.
escapeSQLString(value) ==
  ReplaceAll(ReplaceAll(value, "\\", <<"\\", "\\">>), "'", <<"'", "'">>)

RECURSIVE Join(_, _)
Join(parts, sep) ==
  IF parts = <<>> THEN <<>>
  ELSE IF Len(parts) = 1 THEN parts[1]
  ELSE parts[1] \o sep \o Join(Tail(parts), sep)

\* Mutant: the alert fires from the threshold on (>=), not above it.
generateAlertConfigAtLeast(params, streamName) ==
  [kind |-> "alert",
   name |-> params.Name,
   stream_name |-> streamName,
   query |-> <<"SELECT count(*) as ", "match_count", " FROM \"", streamName,
               "\" WHERE str_match(log, ", "'">>
             \o escapeSQLString(params.SearchPattern) \o <<"'", ")">>,
   condition |-> [column |-> "match_count", operator |-> ">=", value |-> params.ThresholdValue],
   duration |-> params.Duration,
   frequency |-> params.Frequency,
   is_realtime |-> "no",
   destinations |-> <<"openchoreo_alerts">>,
   alert_type |-> "scheduled"]

\* generateAlertConfig, queries.go lines 22-55: the document json.Marshal gets.
generateAlertConfig(params, streamName) ==
  [kind |-> "alert",
   name |-> params.Name,
   stream_name |-> streamName,
   query |-> <<"SELECT count(*) as ", "match_count", " FROM \"", streamName,
               "\" WHERE str_match(log, ", "'">>
             \o escapeSQLString(params.SearchPattern) \o <<"'", ")">>,
   condition |-> [column |-> "match_count", operator |-> ">", value |-> params.ThresholdValue],
   duration |-> params.Duration,
   frequency |-> params.Frequency,
   is_realtime |-> "no",
   destinations |-> <<"openchoreo_alerts">>,
   alert_type |-> "scheduled"]

Equality(column, value) == <<column, " = ", "'">> \o escapeSQLString(value) \o <<"'">>

\* Mutant: the component group is written for an empty list too.
ConditionsGroupAlways(params) ==
  <<Equality("kubernetes_labels_openchoreo_dev_project_uid", params.ProjectID),
    Equality("kubernetes_labels_openchoreo_dev_environment_uid", params.EnvironmentID)>>
  \o << <<"(">> \o Join([i \in 1..Len(params.ComponentIDs) |->
                           Equality("kubernetes_labels_openchoreo_dev_component_uid",
                                    params.ComponentIDs[i])], <<" OR ">>) \o <<")">> >>
  \o (IF params.SearchPhrase # <<>>
      THEN << <<"log LIKE ", "'", "%">> \o escapeSQLString(params.SearchPhrase) \o <<"%", "'">> >>
      ELSE <<>>)
  \o (IF Len(params.LogLevels) > 0
      THEN << <<"(">> \o Join([i \in 1..Len(params.LogLevels) |->
                                 Equality("logLevel", params.LogLevels[i])], <<" OR ">>) \o <<")">> >>
      ELSE <<>>)

\* generateComponentLogsQuery, queries.go lines 60-87: the conditions of the filter.
Conditions(params) ==
  <<Equality("kubernetes_labels_openchoreo_dev_project_uid", params.ProjectID),
    Equality("kubernetes_labels_openchoreo_dev_environment_uid", params.EnvironmentID)>>
  \o (IF Len(params.ComponentIDs) > 0
      THEN << <<"(">> \o Join([i \in 1..Len(params.ComponentIDs) |->
                                 Equality("kubernetes_labels_openchoreo_dev_component_uid",
                                          params.ComponentIDs[i])], <<" OR ">>) \o <<")">> >>
      ELSE <<>>)
  \o (IF params.SearchPhrase # <<>>
      THEN << <<"log LIKE ", "'", "%">> \o escapeSQLString(params.SearchPhrase) \o <<"%", "'">> >>
      ELSE <<>>)
  \o (IF Len(params.LogLevels) > 0
      THEN << <<"(">> \o Join([i \in 1..Len(params.LogLevels) |->
                                 Equality("logLevel", params.LogLevels[i])], <<" OR ">>) \o <<")">> >>
      ELSE <<>>)

\* Mutant: the sort order of the request is written into the SQL.
SortClauseCopied(sortOrder) ==
  IF sortOrder = "" THEN <<" ORDER BY _timestamp DESC">>
  ELSE <<" ORDER BY _timestamp ", sortOrder>>

\* Mutant: the sort order is compared without regard to letter case.
SortClauseFold(sortOrder) ==
  IF sortOrder \in {"ASC", "asc", "Asc", "aSC", "asC", "ASc", "AsC", "aSc"}
  THEN <<" ORDER BY _timestamp ASC">>
  ELSE <<" ORDER BY _timestamp DESC">>

\* generateComponentLogsQuery, queries.go lines 92-97: the sort clause.
SortClause(sortOrder) ==
  IF sortOrder = "ASC" \/ sortOrder = "asc"
  THEN <<" ORDER BY _timestamp ASC">>
  ELSE <<" ORDER BY _timestamp DESC">>

\* Mutant: a limit of zero is sent as it is, and large limits are capped.
EffectiveLimitCapped(limit) ==
  IF limit < 0 THEN 100 ELSE IF limit > 1000 THEN 1000 ELSE limit

\* generateComponentLogsQuery, queries.go lines 99-103: the default limit.
EffectiveLimit(limit) == IF limit <= 0 THEN 100 ELSE limit

\* generateComponentLogsQuery, queries.go lines 58-124: the document
\* json.Marshal gets.
generateComponentLogsQuery(params, stream) ==
  [kind |-> "search",
   sql |-> <<"SELECT * FROM ", stream, " WHERE ">> \o Join(Conditions(params), <<" AND ">>)
           \o SortClause(params.SortOrder),
   start_time |-> params.StartTime,
   end_time |-> params.EndTime,
   from |-> 0,
   size |-> EffectiveLimit(params.Limit),
   timeout |-> 0]

\* ------------------------------------------------------- result normalizer
\* A JSON value of a hit document, tagged with its decoded Go type.
Str(s) == [t |-> "string", s |-> s, n |-> 0]
Num(n) == [t |-> "float64", s |-> "", n |-> n]
Absent == [t |-> "absent", s |-> "", n |-> 0]
NoLabels == [t |-> "absent", m |-> <<>>]
Labels(m) == [t |-> "map", m |-> m]

StringOf(v) == IF v.t = "string" THEN v.s ELSE ""

\* parseApplicationLogEntry, part_006 lines 308-350.
parseApplicationLogEntry(timestamp, source) ==
  [Timestamp |-> timestamp,
   Log |-> StringOf(source.log),
   LogLevel |-> StringOf(source.logLevel),
   ComponentID |-> StringOf(source.component_uid),
   EnvironmentID |-> StringOf(source.environment_uid),
   ProjectID |-> StringOf(source.project_uid),
   Namespace |-> StringOf(source.namespace_name),
   PodID |-> StringOf(source.pod_id),
   ContainerName |-> StringOf(source.container_name),
   Labels |-> IF source.labels.t = "map"
              THEN [k \in {k \in DOMAIN source.labels.m : source.labels.m[k].t = "string"} |->
                      source.labels.m[k].s]
              ELSE <<>>]

\* Mutant: a hit without a numeric timestamp is left out of the result.
ConvertHitsSkipMalformed(hits) ==
  LET Wellformed(h) == h.timestamp.t = "float64"
      kept == SelectSeq(hits, Wellformed)
  IN [i \in 1..Len(kept) |-> parseApplicationLogEntry(kept[i].timestamp.n, kept[i])]

\* GetComponentLogs, part_006 lines 147-163: every hit becomes one entry.
ConvertHits(hits) ==
  [i \in 1..Len(hits) |->
     parseApplicationLogEntry(IF hits[i].timestamp.t = "float64" THEN hits[i].timestamp.n ELSE 0,
                              hits[i])]

\* The years time.Time.MarshalJSON accepts, 0 to 9999, in thousands of seconds
\* from the Unix epoch.
MinJSONTime == 0 - 62167219
MaxJSONTime == 253402300

Hit(ts, log, level, labels) ==
  [timestamp |-> ts, log |-> log, logLevel |-> level, component_uid |-> Str("c1"),
   environment_uid |-> Str("e1"), project_uid |-> Absent, namespace_name |-> Num(7),
   pod_id |-> Str("pod"), container_name |-> Absent, labels |-> labels]

\* The bodies a successful search answer carries.
SearchResults ==
  {[hits |-> <<>>, total |-> 0, took |-> 1],
   [hits |-> <<Hit(Num(1700), Str("boom"), Str("ERROR"), Labels([app |-> Str("x"), n |-> Num(3)])),
               Hit(Str("late"), Num(5), Absent, NoLabels)>>,
    total |-> 2, took |-> 4],
   [hits |-> <<Hit(Num(MaxJSONTime + 1), Str("far"), Str("INFO"), NoLabels)>>,
    total |-> 1, took |-> 2]}

\* What the backend can do with POST /api/{org}/_search: the answer.
SearchAnswers ==
  {TransportFailure, ReadFailure(StatusOK)}
  \cup {Rejected(StatusCreated, "e1"), Rejected(StatusInternalServerError, "e2")}
  \cup {Answer("ok", StatusOK, FALSE, "garbage", <<>>, NoSearch)}
  \cup {Answer("ok", StatusOK, TRUE, "", <<>>, r) : r \in SearchResults}

\* Mutant: the status check is missing.
executeSearchQueryUnchecked(a) ==
  IF a.net = "transport" THEN <<NoSearch, Err("transport", 0, "")>>
  ELSE IF a.net = "read" THEN <<NoSearch, Err("read", 0, "")>>
  ELSE IF ~a.json THEN <<NoSearch, Err("unmarshal", 0, "")>>
  ELSE <<a.search, NoErr>>

\* executeSearchQuery, part_006 lines 104-131: from the answer of Do to the
\* returned pair (response, error); NoSearch is the nil response.
executeSearchQuery(a) ==
  IF a.net = "transport" THEN <<NoSearch, Err("transport", 0, "")>>
  ELSE IF a.net = "read" THEN <<NoSearch, Err("read", 0, "")>>
  ELSE IF a.status # StatusOK THEN <<NoSearch, Err("status", a.status, a.text)>>
  ELSE IF ~a.json THEN <<NoSearch, Err("unmarshal", 0, "")>>
  ELSE <<a.search, NoErr>>

\* What the backend can do with POST /api/v2/{org}/alerts: triples of the
\* answer, the listing afterwards and the next id.  The backend does not
\* promise unique names.
CreateOutcomes(als, nid, name) ==
  (IF nid <= MaxAlerts
   THEN {<<Answer("ok", s, TRUE, "", <<>>, NoSearch), Append(als, Alert(nid, name)), nid + 1>> :
           s \in {StatusOK, StatusCreated}}
        \cup {<<TransportFailure, Append(als, Alert(nid, name)), nid + 1>>}
   ELSE {})
  \cup {<<Rejected(StatusNoContent, "e1"), als, nid>>,
        <<Rejected(StatusInternalServerError, "e2"), als, nid>>}
  \cup {<<TransportFailure, als, nid>>, <<ReadFailure(StatusOK), als, nid>>}

\* Mutant: every 2xx status counts as success.
CreateAlertResultAny2xx(a) ==
  IF a.net = "transport" THEN Err("transport", 0, "")
  ELSE IF a.net = "read" THEN Err("read", 0, "")
  ELSE IF a.status < 200 \/ a.status > 299 THEN Err("status", a.status, a.text)
  ELSE NoErr

\* Mutant: the adapter refuses to report a create as done when the backend
\* already listed an alert of that name.
CreateAlertResultUniqueNames(a) ==
  IF a.net = "transport" THEN Err("transport", 0, "")
  ELSE IF a.net = "read" THEN Err("read", 0, "")
  ELSE IF a.status # StatusOK /\ a.status # StatusCreated THEN Err("status", a.status, a.text)
  ELSE IF \E w \in Workers : pc[w] = "CreateAlert" /\ HasName(alerts, sent[w][1].doc.name)
       THEN Err("status", 409, "duplicate")
  ELSE NoErr

\* CreateAlert, part_006 lines 190-212: from the answer of Do to the returned
\* error.
CreateAlertResult(a) ==
  IF a.net = "transport" THEN Err("transport", 0, "")
  ELSE IF a.net = "read" THEN Err("read", 0, "")
  ELSE IF a.status # StatusOK /\ a.status # StatusCreated THEN Err("status", a.status, a.text)
  ELSE NoErr

\* ---------------------------------------------------- create, query handlers
LogAlertParams(name, pattern, threshold, duration, frequency) ==
  [Name |-> name, SearchPattern |-> pattern, ThresholdValue |-> threshold,
   Duration |-> duration, Frequency |-> frequency]

\* The bodies of POST /api/v1/alerts/rules/{ruleName}: "bad" does not decode.
CreateBodies ==
  {[decodes |-> FALSE, params |-> LogAlertParams("", <<>>, 0, 0, 0)],
   [decodes |-> TRUE, params |-> LogAlertParams("b", <<"E", "'">>, 10, 5, 1)]}

\* Mutant: a name in the body wins over the path's.
WithRuleNameUnlessNamed(params, ruleName) ==
  IF params.Name # "" THEN params ELSE [params EXCEPT !.Name = ruleName]

\* HandleCreateAlert, part_005 line 96: params.Name = ruleName.
WithRuleName(params, ruleName) == [params EXCEPT !.Name = ruleName]

CreateAlertResponse(e) ==
  IF e # NoErr THEN <<StatusInternalServerError, Message("text", "Failed to create alert")>>
  ELSE <<StatusCreated, Message("json", "Alert created successfully")>>

\* HandleCreateAlert, part_005 lines 82-98, then CreateAlert up to the POST
\* entering httpClient.Do (part_006 lines 167-190).
HandleCreateAlert(w) ==
  /\ Accepting(w)
  /\ \E ruleName \in RuleNames, body \in CreateBodies :
       /\ req' = [req EXCEPT ![w] = [kind |-> "create", ruleName |-> ruleName,
                                     body |-> IF body.decodes THEN "json" ELSE "bad",
                                     name |-> body.params.Name, params |-> NoParams]]
       /\ IF ruleName = ""
          THEN /\ pc' = [pc EXCEPT ![w] = "done"]
               /\ httpStatus' = [httpStatus EXCEPT ![w] = StatusBadRequest]
               /\ result' = [result EXCEPT ![w] = Message("text", "Rule name is required")]
               /\ logged' = [logged EXCEPT ![w] = <<Log("handler", "Rule name is required", <<>>)>>]
               /\ UNCHANGED <<sent, outcome>>
          ELSE IF ~body.decodes
          THEN /\ pc' = [pc EXCEPT ![w] = "done"]
               /\ httpStatus' = [httpStatus EXCEPT ![w] = StatusBadRequest]
               /\ result' = [result EXCEPT ![w] = Message("text", "Invalid request body")]
               /\ logged' = [logged EXCEPT ![w] =
                               <<Log("handler", "Failed to decode request body", <<"#cause">>)>>]
               /\ UNCHANGED <<sent, outcome>>
          ELSE /\ pc' = [pc EXCEPT ![w] = "CreateAlert"]
               /\ sent' = [sent EXCEPT ![w] =
                             <<Request(client, "POST", "v2/alerts", 0,
                                       generateAlertConfig(WithRuleName(body.params, ruleName),
                                                           client.stream))>>]
               /\ outcome' = [outcome EXCEPT ![w] = <<"pending">>]
               /\ UNCHANGED <<httpStatus, result, logged>>
  /\ UNCHANGED <<answer, alertID, err, cancelled, mainVars, backendVars, scriptVars, builderVars>>

\* CreateAlert from the return of httpClient.Do (part_006 lines 190-212), then
\* the handler's answer (part_005 lines 98-106).  The backend acts on the POST
\* here.
CreateAlert_Return(w) ==
  /\ pc[w] = "CreateAlert"
  /\ Returned(w)
  /\ \E o \in CreateOutcomes(alerts, nextId, sent[w][1].doc.name) :
       LET e == CreateAlertResult(o[1])
       IN /\ DoReturns(w, o[1])
          /\ alerts' = o[2]
          /\ nextId' = o[3]
          /\ answer' = [answer EXCEPT ![w] = Received(o[1])]
          /\ err' = [err EXCEPT ![w] = e]
          /\ outcome' = [outcome EXCEPT ![w] = <<Outcome(e)>>]
          /\ httpStatus' = [httpStatus EXCEPT ![w] = CreateAlertResponse(e)[1]]
          /\ result' = [result EXCEPT ![w] = CreateAlertResponse(e)[2]]
          /\ logged' = [logged EXCEPT ![w] =
                          ClientLog("create", e) \o HandlerLog("Failed to create alert", e, "")]
  /\ pc' = [pc EXCEPT ![w] = "done"]
  /\ UNCHANGED <<req, sent, alertID, cancelled, mainVars, scriptVars, builderVars>>


\* The bodies of POST /api/v1/logs/query: read is whether io.ReadAll returned
\* the body, json whether it unmarshals into rawRequest, type its discriminator,
\* decodes whether it unmarshals into ComponentLogsParams.
QueryBody(read, json, type, decodes, params) ==
  [read |-> read, json |-> json, type |-> type, decodes |-> decodes, params |-> params]

QueryBodies ==
  {QueryBody(FALSE, FALSE, "", FALSE, NoParams),
   QueryBody(TRUE, FALSE, "", FALSE, NoParams),
   QueryBody(TRUE, TRUE, "trace", TRUE, NoParams),
   QueryBody(TRUE, TRUE, "", TRUE, NoParams),
   QueryBody(TRUE, TRUE, "component", FALSE, NoParams),
   QueryBody(TRUE, TRUE, "component", TRUE,
             ComponentLogsParams(<< <<"c", "'">> >>, <<"e">>, <<"p", "\\">>, 100, 200,
                                 <<"%", "'">>, << <<"E">>, <<"W">> >>, 37, "asc")),
   \* no projectId and no endTime
   QueryBody(TRUE, TRUE, "component", TRUE,
             ComponentLogsParams(<<>>, <<"e">>, <<>>, 100, ZeroTime, <<>>, <<>>, 0, "")),
   \* no environmentId and no startTime
   QueryBody(TRUE, TRUE, "component", TRUE,
             ComponentLogsParams(<<>>, <<>>, <<"p">>, ZeroTime, 200, <<>>, <<>>, 0, "desc")),
   \* startTime later than endTime
   QueryBody(TRUE, TRUE, "component", TRUE,
             ComponentLogsParams(<<>>, <<"e">>, <<"p">>, 200, 100, <<>>, <<>>, 5, "ASC"))}

\* json.NewEncoder(w).Encode(result), part_005 line 75: it fails when an
\* entry's Timestamp, time.UnixMicro of the hit's _timestamp, has a year
\* outside 0..9999; every other field of the result always marshals.
EncodeOk(logs) ==
  \A i \in 1..Len(logs) : logs[i].Timestamp >= MinJSONTime /\ logs[i].Timestamp <= MaxJSONTime

\* Mutant: a search without hits is answered as a missing resource.
LogsQueryResponseEmptyNotFound(r, e) ==
  IF e # NoErr THEN <<StatusInternalServerError, Message("text", "Failed to fetch component logs")>>
  ELSE IF r.hits = <<>> THEN <<404, Message("text", "No logs found")>>
  ELSE IF ~EncodeOk(ConvertHits(r.hits))
  THEN <<StatusInternalServerError, Message("text", "Failed to encode response")>>
  ELSE <<StatusOK, [kind |-> "json", logs |-> ConvertHits(r.hits), totalCount |-> r.total,
                    took |-> r.took, message |-> ""]>>

\* What HandleLogsQuery writes once GetComponentLogs returned (r, e), part_005
\* lines 62-79.
LogsQueryResponse(r, e) ==
  IF e # NoErr THEN <<StatusInternalServerError, Message("text", "Failed to fetch component logs")>>
  ELSE IF ~EncodeOk(ConvertHits(r.hits))
  THEN <<StatusInternalServerError, Message("text", "Failed to encode response")>>
  ELSE <<StatusOK, [kind |-> "json", logs |-> ConvertHits(r.hits), totalCount |-> r.total,
                    took |-> r.took, message |-> ""]>>

\* What the client and the handler log for that outcome.
LogsQueryLog(r, e) ==
  IF e # NoErr
  THEN ClientLog("search", e) \o HandlerLog("Failed to get component logs", e, "")
  ELSE IF ~EncodeOk(ConvertHits(r.hits))
  THEN <<Log("handler", "Failed to encode response", <<"#cause">>)>>
  ELSE <<>>

\* HandleLogsQuery, part_005 lines 31-72, then GetComponentLogs and
\* executeSearchQuery up to the search POST entering httpClient.Do (part_006
\* lines 134-142, 92-104).
HandleLogsQuery(w) ==
  /\ Accepting(w)
  /\ \E body \in QueryBodies :
       /\ req' = [req EXCEPT ![w] = [kind |-> "query", ruleName |-> "",
                                     body |-> IF ~body.read THEN "unread"
                                              ELSE IF ~body.json THEN "bad"
                                              ELSE IF ~body.decodes THEN "badparams"
                                              ELSE "json",
                                     name |-> body.type, params |-> body.params]]
       /\ IF ~body.read
          THEN /\ pc' = [pc EXCEPT ![w] = "done"]
               /\ httpStatus' = [httpStatus EXCEPT ![w] = StatusBadRequest]
               /\ result' = [result EXCEPT ![w] = Message("text", "Failed to read request body")]
               /\ logged' = [logged EXCEPT ![w] =
                               <<Log("handler", "Failed to read request body", <<"#cause">>)>>]
               /\ UNCHANGED <<sent, outcome>>
          ELSE IF ~body.json
          THEN /\ pc' = [pc EXCEPT ![w] = "done"]
               /\ httpStatus' = [httpStatus EXCEPT ![w] = StatusBadRequest]
               /\ result' = [result EXCEPT ![w] = Message("text", "Invalid request body")]
               /\ logged' = [logged EXCEPT ![w] =
                               <<Log("handler", "Failed to decode request body", <<"#cause">>)>>]
               /\ UNCHANGED <<sent, outcome>>
          ELSE IF body.type # "component"
          THEN /\ pc' = [pc EXCEPT ![w] = "done"]
               /\ httpStatus' = [httpStatus EXCEPT ![w] = StatusBadRequest]
               /\ result' = [result EXCEPT ![w] =
                               Message("text", "Unknown log query type: " \o body.type
                                               \o ". Supported types are \"component\"")]
               /\ logged' = [logged EXCEPT ![w] =
                               <<Log("handler", "Unknown log query type", <<body.type>>)>>]
               /\ UNCHANGED <<sent, outcome>>
          ELSE IF ~body.decodes
          THEN /\ pc' = [pc EXCEPT ![w] = "done"]
               /\ httpStatus' = [httpStatus EXCEPT ![w] = StatusBadRequest]
               /\ result' = [result EXCEPT ![w] = Message("text", "Invalid component logs params")]
               /\ logged' = [logged EXCEPT ![w] =
                               <<Log("handler", "Failed to decode component logs params",
                                     <<"#cause">>)>>]
               /\ UNCHANGED <<sent, outcome>>
          ELSE /\ pc' = [pc EXCEPT ![w] = "executeSearchQuery"]
               /\ sent' = [sent EXCEPT ![w] =
                             <<Request(client, "POST", "_search", 0,
                                       generateComponentLogsQuery(body.params, client.stream))>>]
               /\ outcome' = [outcome EXCEPT ![w] = <<"pending">>]
               /\ UNCHANGED <<httpStatus, result, logged>>
  /\ UNCHANGED <<answer, alertID, err, cancelled, mainVars, backendVars, scriptVars, builderVars>>

\* Mutant: a failed search is issued once more before the request fails.
GetComponentLogs_ReturnRetrying(w) ==
  /\ pc[w] = "executeSearchQuery"
  /\ Returned(w)
  /\ \E a \in SearchAnswers :
       LET r == executeSearchQuery(a)
           again == r[2] # NoErr /\ Len(sent[w]) = 1
       IN /\ DoReturns(w, a)
          /\ answer' = [answer EXCEPT ![w] = Received(a)]
          /\ err' = [err EXCEPT ![w] = r[2]]
          /\ outcome' = [outcome EXCEPT ![w] =
                           IF again THEN <<"fail", "pending">>
                           ELSE [outcome[w] EXCEPT ![Len(outcome[w])] = Outcome(r[2])]]
          /\ sent' = [sent EXCEPT ![w] = IF again THEN Append(@, sent[w][1]) ELSE @]
          /\ pc' = [pc EXCEPT ![w] = IF again THEN "executeSearchQuery" ELSE "done"]
          /\ httpStatus' = [httpStatus EXCEPT ![w] =
                              IF again THEN 0 ELSE LogsQueryResponse(r[1], r[2])[1]]
          /\ result' = [result EXCEPT ![w] =
                          IF again THEN NoResult ELSE LogsQueryResponse(r[1], r[2])[2]]
          /\ logged' = [logged EXCEPT ![w] = @ \o LogsQueryLog(r[1], r[2])]
  /\ UNCHANGED <<req, alertID, cancelled, mainVars, backendVars, scriptVars, builderVars>>

\* executeSearchQuery from the return of httpClient.Do (part_006 lines
\* 104-131), the rest of GetComponentLogs (lines 143-163) and the handler's
\* answer (part_005 lines 62-79).
GetComponentLogs_Return(w) ==
  /\ pc[w] = "executeSearchQuery"
  /\ Returned(w)
  /\ \E a \in SearchAnswers :
       LET r == executeSearchQuery(a)
       IN /\ DoReturns(w, a)
          /\ answer' = [answer EXCEPT ![w] = Received(a)]
          /\ err' = [err EXCEPT ![w] = r[2]]
          /\ outcome' = [outcome EXCEPT ![w] = <<Outcome(r[2])>>]
          /\ httpStatus' = [httpStatus EXCEPT ![w] = LogsQueryResponse(r[1], r[2])[1]]
          /\ result' = [result EXCEPT ![w] = LogsQueryResponse(r[1], r[2])[2]]
          /\ logged' = [logged EXCEPT ![w] = LogsQueryLog(r[1], r[2])]
  /\ pc' = [pc EXCEPT ![w] = "done"]
  /\ UNCHANGED <<req, sent, alertID, cancelled, mainVars, backendVars, scriptVars, builderVars>>

\* The handler returned: the goroutine ends, and the worker is free to serve
\* the next inbound request.
Finish(w) ==
  /\ pc[w] = "done"
  /\ pc' = [pc EXCEPT ![w] = "idle"]
  /\ req' = [req EXCEPT ![w] = NoReq]
  /\ sent' = [sent EXCEPT ![w] = <<>>]
  /\ outcome' = [outcome EXCEPT ![w] = <<>>]
  /\ answer' = [answer EXCEPT ![w] = NoneReceived]
  /\ alertID' = [alertID EXCEPT ![w] = 0]
  /\ err' = [err EXCEPT ![w] = NoErr]
  /\ httpStatus' = [httpStatus EXCEPT ![w] = 0]
  /\ result' = [result EXCEPT ![w] = NoResult]
  /\ logged' = [logged EXCEPT ![w] = <<>>]
  /\ cancelled' = [cancelled EXCEPT ![w] = FALSE]
  /\ UNCHANGED <<mainVars, backendVars, scriptVars, builderVars>>

\* The backend calls a handler can be blocked in.
InFlight == {"executeSearchQuery", "CreateAlert", "getAlertIDByName", "DeleteAlert"}

\* The inbound caller goes away while the handler is blocked in a backend call
\* (net/http cancels r.Context() when the connection closes): the Done channel
\* of the context the call was given is closed.
Cancel(w) ==
  /\ pc[w] \in InFlight
  /\ ~cancelled[w]
  /\ Returned(w)
  /\ cancelled' = [cancelled EXCEPT ![w] = TRUE]
  /\ UNCHANGED <<pc, req, sent, outcome, answer, alertID, err, httpStatus, result, logged,
                 mainVars, backendVars, scriptVars, builderVars>>

\* Another writer on the backend (the adapter holds no lock on it): it deletes
\* an alert, renames one, or creates one.
ExternalWriter ==
  /\ \/ \E i \in 1..Len(alerts) :
          /\ alerts' = RemoveID(alerts, alerts[i].alert_id)
          /\ nextId' = nextId
     \/ \E i \in 1..Len(alerts), n \in Names :
          /\ n # alerts[i].name
          /\ alerts' = [alerts EXCEPT ![i].name = n]
          /\ nextId' = nextId
     \/ \E n \in Names :
          /\ nextId <= MaxAlerts
          /\ alerts' = Append(alerts, Alert(nextId, n))
          /\ nextId' = nextId + 1
  /\ UNCHANGED <<mainVars, workerVars, scriptVars, builderVars>>

\* ------------------------------------------------------------ setup script
\* What one curl of $OPENOBSERVE_URL/healthz gives: $HTTP_CODE (0 stands for
\* curl's 000, no answer) and whether $BODY matches the "status": "ok" grep.
CurlAnswers == {<<0, FALSE>>, <<503, FALSE>>, <<StatusOK, FALSE>>, <<StatusOK, TRUE>>, <<503, TRUE>>}

\* setup-openobserve.sh lines 24-43: one pass of the loop body up to the break
\* or the sleep.
Script_Attempt ==
  /\ scriptPc = "loop"
  /\ \E a \in CurlAnswers :
       /\ httpCode' = a[1]
       /\ bodyOk' = a[2]
       /\ IF a[1] = StatusOK /\ a[2]
          THEN healthy' = TRUE /\ scriptPc' = "afterLoop"
          ELSE healthy' = healthy /\ scriptPc' = "sleep"
  /\ UNCHANGED <<attempt, slept, mainVars, backendVars, workerVars, builderVars>>

\* Mutant: the loop gives up one attempt early.
LoopContinuesShort(i) == i < MAX_RETRIES - 1

\* setup-openobserve.sh line 24: whether $(seq 1 $MAX_RETRIES) has a value
\* after i.
LoopContinues(i) == i < MAX_RETRIES

\* setup-openobserve.sh lines 24, 45-46: sleep $RETRY_INTERVAL, then the next
\* value of $(seq 1 $MAX_RETRIES) or the end of the loop.
Script_Sleep ==
  /\ scriptPc = "sleep"
  /\ slept' = slept + RETRY_INTERVAL
  /\ IF LoopContinues(attempt)
     THEN attempt' = attempt + 1 /\ scriptPc' = "loop"
     ELSE attempt' = attempt /\ scriptPc' = "afterLoop"
  /\ UNCHANGED <<httpCode, bodyOk, healthy, mainVars, backendVars, workerVars, builderVars>>

\* setup-openobserve.sh lines 48-51.
Script_CheckHealthy ==
  /\ scriptPc = "afterLoop"
  /\ scriptPc' = IF healthy THEN "template" ELSE "exit1"
  /\ UNCHANGED <<attempt, httpCode, bodyOk, healthy, slept, mainVars, backendVars, workerVars, builderVars>>

\* setup-openobserve.sh lines 55-91 (the alert template) and 94-135 (the
\* destination): skip when it exists, else POST it and exit 1 unless the answer
\* is 200 or 201.
Script_Configure ==
  /\ scriptPc \in {"template", "destination"}
  /\ \E exists \in BOOLEAN, code \in {StatusOK, StatusCreated, StatusInternalServerError} :
       /\ httpCode' = IF exists THEN httpCode ELSE code
       /\ scriptPc' = IF exists \/ code = StatusOK \/ code = StatusCreated
                      THEN (IF scriptPc = "template" THEN "destination" ELSE "done")
                      ELSE "exit1"
  /\ UNCHANGED <<attempt, bodyOk, healthy, slept, mainVars, backendVars, workerVars, builderVars>>

\* ------------------------------------------------- query builder run alone
\* The characters of a request-supplied string: a letter, the single quote and
\* the backslash.
Chars == {"a", "'", "\\"}

\* The strings over Chars of length at most n.
RECURSIVE StringsUpTo(_)
StringsUpTo(n) ==
  IF n = 0 THEN {<<>>}
  ELSE LET shorter == StringsUpTo(n - 1)
       IN shorter \cup {Append(t, c) : t \in shorter, c \in Chars}

Strings == StringsUpTo(MaxStrLen)
ShortStrings == StringsUpTo(1)

\* The sort orders a request can carry.
SortOrders == {"asc", "ASC", "Asc", "aSC", "desc", "DESC", "", "banana"}

\* The strings over chars of length at most n.
RECURSIVE StringsOver(_, _)
StringsOver(chars, n) ==
  IF n = 0 THEN {<<>>}
  ELSE LET shorter == StringsOver(chars, n - 1)
       IN shorter \cup {Append(t, c) : t \in shorter, c \in chars}

\* The arguments of one call of the builder: kind is the function called,
\* params, alert and stream the arguments of the two generators, pattern the
\* string escapeSQLString is called on, hits the hits of a search response.
BuilderInput(kind, params, pattern) ==
  [kind |-> kind, params |-> params, pattern |-> pattern,
   alert |-> LogAlertParams("", <<>>, 0, 0, 0), stream |-> "default", hits |-> <<>>]

QueryInputs ==
  {BuilderInput("generateComponentLogsQuery",
                ComponentLogsParams(SubSeq(<<t, s>>, 3 - ids, 2), t, s, 100, 200,
                                    IF phrase THEN s ELSE <<>>,
                                    IF levels THEN <<s, t>> ELSE <<>>, 0, order), <<>>) :
     s \in Strings, t \in ShortStrings, ids \in 0..2, phrase \in BOOLEAN,
     levels \in BOOLEAN, order \in SortOrders}

\* The limits a request can carry: Limit is a Go int, any JSON integer.
Limits == {0 - 5, 0 - 1, 0, 1, 37, 100, 101, 100000}

LimitInputs ==
  {BuilderInput("generateComponentLogsQuery",
                ComponentLogsParams(<<>>, <<"e">>, <<"p">>, 100, 200, <<>>, <<>>, limit, order),
                <<>>) :
     limit \in Limits, order \in {"", "asc"}}

\* The characters of a search phrase that mean something to LIKE, and two
\* letters.
PhraseChars == {"a", "b", "%", "_"}
Phrases == StringsOver(PhraseChars, MaxStrLen)

PhraseInputs ==
  {BuilderInput("generateComponentLogsQuery",
                ComponentLogsParams(<<>>, <<"e">>, <<"p">>, 100, 200, phrase, <<>>, 0, ""),
                <<>>) :
     phrase \in Phrases}

\* The streams a client is configured with.
Streams == {"default", "logs"}

AlertInputs ==
  {[BuilderInput("generateAlertConfig", NoParams, s)
      EXCEPT !.alert = LogAlertParams(name, s, threshold, duration, frequency),
             !.stream = stream] :
     s \in Strings, name \in {"", "a"}, threshold \in {0 - 1, 0, 10}, duration \in {0, 5},
     frequency \in {1, 60}, stream \in Streams}

EscapeInputs ==
  {BuilderInput("escapeSQLString", NoParams, s) : s \in Strings}

\* The shapes a member of a hit document takes: a string, another JSON type,
\* no such key.
Shapes == <<Str("x"), Num(5), Absent>>
Shape(i, k) == Shapes[((i + k) % 3) + 1]

\* The hit documents of the model: every text member takes every shape, the
\* timestamp is a number, a string or missing, and the label object is missing,
\* of another type, empty, or holds string and other values.
HitDocs ==
  {[timestamp |-> ts, log |-> Shape(0, k), logLevel |-> Shape(1, k),
    component_uid |-> Shape(2, k), environment_uid |-> Shape(3, k),
    project_uid |-> Shape(4, k), namespace_name |-> Shape(5, k), pod_id |-> Shape(6, k),
    container_name |-> Shape(7, k), labels |-> labels] :
     ts \in {Num(1700), Str("late"), Absent}, k \in 0..2,
     labels \in {NoLabels, [t |-> "string", m |-> <<>>], Labels(<<>>),
                 Labels([app |-> Str("x"), n |-> Num(3), tier |-> Str("")])}}

RECURSIVE HitListsUpTo(_)
HitListsUpTo(n) ==
  IF n = 0 THEN {<<>>}
  ELSE LET shorter == HitListsUpTo(n - 1)
       IN shorter \cup {Append(l, h) : l \in shorter, h \in HitDocs}

HitsInputs ==
  {[BuilderInput("GetComponentLogs", NoParams, <<>>) EXCEPT !.hits = hits] :
     hits \in HitListsUpTo(MaxHits)}

NoInput == BuilderInput("none", NoParams, <<>>)

\* generateComponentLogsQuery called with the input: its document, and the SQL
\* of it.
Build_ComponentLogsQuery ==
  /\ builderPc = "ready"
  /\ input.kind = "generateComponentLogsQuery"
  /\ document' = generateComponentLogsQuery(input.params, input.stream)
  /\ output' = document'.sql
  /\ builderPc' = "built"
  /\ UNCHANGED <<input, mainVars, backendVars, workerVars, scriptVars>>

\* generateAlertConfig called with the input: its document, and the query of
\* it.
Build_AlertConfig ==
  /\ builderPc = "ready"
  /\ input.kind = "generateAlertConfig"
  /\ document' = generateAlertConfig(input.alert, input.stream)
  /\ output' = document'.query
  /\ builderPc' = "built"
  /\ UNCHANGED <<input, mainVars, backendVars, workerVars, scriptVars>>

\* escapeSQLString called with the input.
Build_Escape ==
  /\ builderPc = "ready"
  /\ input.kind = "escapeSQLString"
  /\ output' = escapeSQLString(input.pattern)
  /\ builderPc' = "built"
  /\ UNCHANGED <<input, document, mainVars, backendVars, workerVars, scriptVars>>

\* GetComponentLogs, part_006 lines 147-163, called on the hits of a search
\* response: the entries of its result.
Build_Entries ==
  /\ builderPc = "ready"
  /\ input.kind = "GetComponentLogs"
  /\ output' = ConvertHits(input.hits)
  /\ builderPc' = "built"
  /\ UNCHANGED <<input, document, mainVars, backendVars, workerVars, scriptVars>>

\* ------------------------------------------------------------ specification
InitRest ==
  /\ mainPc = "start"
  /\ exitCode = 0
  /\ cfg = NoConfig
  /\ client = NoClient
  /\ probe = NoAnswer
  /\ alerts = <<>>
  /\ nextId = 1
  /\ pc = [w \in Workers |-> "idle"]
  /\ req = [w \in Workers |-> NoReq]
  /\ sent = [w \in Workers |-> <<>>]
  /\ outcome = [w \in Workers |-> <<>>]
  /\ answer = [w \in Workers |-> NoneReceived]
  /\ alertID = [w \in Workers |-> 0]
  /\ err = [w \in Workers |-> NoErr]
  /\ httpStatus = [w \in Workers |-> 0]
  /\ result = [w \in Workers |-> NoResult]
  /\ logged = [w \in Workers |-> <<>>]
  /\ cancelled = [w \in Workers |-> FALSE]
  /\ scriptPc = "loop"
  /\ attempt = 1
  /\ httpCode = -1
  /\ bodyOk = FALSE
  /\ healthy = FALSE
  /\ slept = 0

BuilderIdle == builderPc = "idle" /\ input = NoInput /\ output = <<>> /\ document = NoDoc

Init == env \in Envs /\ InitRest /\ BuilderIdle

InitStartup == env \in StartupEnvs /\ InitRest /\ BuilderIdle

\* The builder functions called on their own, on every input of the bounded
\* sets.
InitBuilder ==
  /\ env \in {e \in Envs : LoadConfigErr(e) = "nil"}
  /\ InitRest
  /\ builderPc = "ready"
  /\ input \in QueryInputs \cup LimitInputs \cup PhraseInputs \cup AlertInputs
                \cup EscapeInputs \cup HitsInputs
  /\ output = <<>>
  /\ document = NoDoc

\* The adapter process and the backend, with inbound callers that wait for
\* their answer.
Next ==
  \/ Main_LoadConfig
  \/ Main_HealthProbe
  \/ \E w \in Workers : HandleLogsQuery(w)
  \/ \E w \in Workers : GetComponentLogs_Return(w)
  \/ \E w \in Workers : HandleCreateAlert(w)
  \/ \E w \in Workers : CreateAlert_Return(w)
  \/ \E w \in Workers : HandleDeleteAlert(w)
  \/ \E w \in Workers : DeleteAlert_Resolve(w)
  \/ \E w \in Workers : DeleteAlert_Return(w)
  \/ \E w \in Workers : Finish(w)
  \/ ExternalWriter

Spec == Init /\ [][Next]_vars

\* The adapter process with inbound callers that go away before they are
\* answered, and a backend that nobody else writes to.
NextCancel ==
  \/ Main_LoadConfig
  \/ Main_HealthProbe
  \/ \E w \in Workers : HandleLogsQuery(w)
  \/ \E w \in Workers : GetComponentLogs_Return(w)
  \/ \E w \in Workers : HandleCreateAlert(w)
  \/ \E w \in Workers : CreateAlert_Return(w)
  \/ \E w \in Workers : HandleDeleteAlert(w)
  \/ \E w \in Workers : DeleteAlert_Resolve(w)
  \/ \E w \in Workers : DeleteAlert_Return(w)
  \/ \E w \in Workers : Finish(w)
  \/ \E w \in Workers : Cancel(w)

SpecCancel == Init /\ [][NextCancel]_vars

\* The two startup programs: the adapter's main up to serving, and the setup
\* script.
NextStartup ==
  \/ Main_LoadConfig
  \/ Main_HealthProbe
  \/ Script_Attempt
  \/ Script_Sleep
  \/ Script_CheckHealthy
  \/ Script_Configure

SpecStartup == InitStartup /\ [][NextStartup]_vars

NextBuilder ==
  \/ Build_ComponentLogsQuery
  \/ Build_AlertConfig
  \/ Build_Escape
  \/ Build_Entries

SpecBuilder == InitBuilder /\ [][NextBuilder]_vars

\* ------------------------------------------------------------------ claims
DeletesIssued(w) == {i \in 1..Len(sent[w]) : sent[w][i].method = "DELETE"}
Pending(w) == {i \in 1..Len(outcome[w]) : outcome[w][i] = "pending"}
ListingOk(a) == a.net = "ok" /\ a.status = 200 /\ a.json
FirstIndex(list, name) ==
  CHOOSE i \in 1..Len(list) : list[i].name = name /\ \A j \in 1..(i - 1) : list[j].name # name
ListingAnswered(w) == pc[w] = "getAlertIDByName" /\ pc'[w] # "getAlertIDByName"
DeleteAnswered(w) == pc[w] = "DeleteAlert" /\ pc'[w] # "DeleteAlert"

\* C1: in DeleteAlert, when the listing the backend returns holds no entry of
\* the requested name, or the listing call fails, no DELETE is issued for that
\* operation and the operation returns an error.
C1_NoDeleteWithoutMatch ==
  /\ [][\A w \in Workers :
          (ListingAnswered(w)
           /\ (~HasName(alerts, req[w].ruleName) \/ ~ListingOk(answer'[w])))
          => (pc'[w] = "done" /\ err'[w] # NoErr /\ DeletesIssued(w)' = {})]_vars
  /\ [](\A w \in Workers :
          (req[w].kind = "delete" /\ err[w].wraps = "failed to find alert")
          => (pc[w] = "done" /\ DeletesIssued(w) = {} /\ Len(sent[w]) = 1
              /\ httpStatus[w] = 500))

C1_Witness ==
  \E w \in Workers :
    /\ req[w].kind = "delete" /\ pc[w] = "done"
    /\ ListingOk(answer[w]) /\ ~HasName(alerts, req[w].ruleName)
    /\ err[w].kind = "notfound" /\ DeletesIssued(w) = {} /\ httpStatus[w] = 500

\* C2: within one DeleteAlert the DELETE is issued only after the listing GET
\* of the same operation returned successfully: it is the second request, the
\* GET is the first and has ended well, and the two are never in flight
\* together.
C2_ListThenDelete ==
  \A w \in Workers :
    /\ Cardinality(Pending(w)) <= 1
    /\ \A i \in DeletesIssued(w) :
         /\ i = 2
         /\ sent[w][1].method = "GET"
         /\ outcome[w][1] = "ok"

C2_Witness ==
  \E w \in Workers :
    /\ pc[w] = "DeleteAlert" /\ outcome[w] = <<"ok", "pending">>
    /\ sent[w][1].method = "GET" /\ sent[w][2].method = "DELETE"

\* C3: DeleteAlert is not atomic and neither locks nor looks again: the DELETE
\* in flight addresses the id its own listing resolved, whatever the backend
\* holds by then; answering it issues no further request, removes at most that
\* id, and when the id is gone by then the operation ends with an error.
C3_DeleteActsOnResolvedID ==
  /\ [](\A w \in Workers :
          pc[w] = "DeleteAlert"
          => (Len(sent[w]) = 2 /\ sent[w][2].method = "DELETE" /\ sent[w][2].id = alertID[w]))
  /\ [][\A w \in Workers :
          DeleteAnswered(w)
          => /\ sent'[w] = sent[w]
             /\ alerts' \in {alerts, RemoveID(alerts, alertID[w])}
             /\ (~HasID(alerts, alertID[w]) => (err'[w] # NoErr /\ alerts' = alerts))]_vars

\* Two deletes of one name (or another writer) interleaved: the DELETE is in
\* flight for an id the backend no longer holds.
C3_Witness ==
  \E w, v \in Workers :
    /\ w # v
    /\ pc[w] = "DeleteAlert" /\ sent[w][2].id = alertID[w]
    /\ req[v].kind = "delete" /\ req[v].ruleName = req[w].ruleName
    /\ pc[v] = "done" /\ err[v] = NoErr /\ alertID[v] = alertID[w]
    /\ ~HasID(alerts, alertID[w])

\* The other race of C3: the id is still there but no longer carries the name.
C3_RenamedWitness ==
  \E w \in Workers :
    /\ pc[w] = "DeleteAlert"
    /\ \E i \in 1..Len(alerts) :
         alerts[i].alert_id = alertID[w] /\ alerts[i].name # req[w].ruleName

\* C4: when several entries of the listing share the requested name, the id
\* resolved is that of the first of them in listing order, and DeleteAlert
\* issues exactly one DELETE, addressed to that id.
C4_FirstMatchOnly ==
  /\ [](\A w \in Workers :
          /\ Cardinality(DeletesIssued(w)) <= 1
          /\ \A i \in DeletesIssued(w) : sent[w][i].id = alertID[w])
  /\ [][\A w \in Workers :
          (ListingAnswered(w) /\ ListingOk(answer'[w]) /\ HasName(alerts, req[w].ruleName))
          => /\ alertID'[w] = alerts[FirstIndex(alerts, req[w].ruleName)].alert_id
             /\ Cardinality(DeletesIssued(w)') = 1]_vars

C4_Witness ==
  \E w \in Workers :
    /\ pc[w] = "DeleteAlert"
    /\ \E i, j \in 1..Len(alerts) :
         /\ i < j
         /\ alerts[i].name = req[w].ruleName /\ alerts[j].name = req[w].ruleName
         /\ alerts[i].alert_id # alerts[j].alert_id
         /\ i = FirstIndex(alerts, req[w].ruleName)
         /\ sent[w][2].id = alerts[i].alert_id

\* C5: after a successful name resolution, DeleteAlert returns success exactly
\* when the backend answers the DELETE with status 200 or 204; any other
\* status, or a transport error, makes it return an error.
C5_DeleteSuccessIff200Or204 ==
  \A w \in Workers :
    (req[w].kind = "delete" /\ pc[w] = "done" /\ Len(sent[w]) = 2)
    => /\ err[w] = NoErr <=> (answer[w].net = "ok" /\ answer[w].status \in {200, 204})
       /\ httpStatus[w] = (IF err[w] = NoErr THEN 200 ELSE 500)

C5_Witness ==
  \E w \in Workers :
    /\ req[w].kind = "delete" /\ pc[w] = "done" /\ Len(sent[w]) = 2
    /\ answer[w].net = "ok" /\ answer[w].status = 204 /\ err[w] = NoErr

\* C6: CreateAlert returns success exactly when the backend answers the POST
\* with status 200 or 201; any other status gives an error carrying the status
\* and the body, and a transport error gives an error too.
C6_CreateSuccessIff200Or201 ==
  \A w \in Workers :
    (req[w].kind = "create" /\ pc[w] = "done" /\ Len(sent[w]) = 1)
    => /\ err[w] = NoErr <=> (answer[w].net = "ok" /\ answer[w].status \in {200, 201})
       /\ (answer[w].net = "ok" /\ answer[w].status \notin {200, 201})
          => (err[w].kind = "status" /\ err[w].code = answer[w].status
              /\ err[w].body = answer[w].text)
       /\ answer[w].net # "ok" => err[w].kind \in {"transport", "read"}

C6_Witness ==
  \E w \in Workers :
    /\ req[w].kind = "create" /\ pc[w] = "done" /\ Len(sent[w]) = 1
    /\ answer[w].net = "ok" /\ answer[w].status = 204
    /\ err[w].code = 204 /\ err[w].body = "e1"

\* C7: executeSearchQuery returns a parsed result (hits, total, took) only
\* when the backend answered the search POST with status 200; any other status
\* gives an error carrying the status and the body and no result, and a
\* transport error gives an error and no result.
C7_SearchResultOnlyOnSuccess ==
  \A w \in Workers :
    (req[w].kind = "query" /\ pc[w] = "done" /\ Len(sent[w]) = 1)
    => /\ result[w].kind = "json" => err[w] = NoErr
       /\ err[w] = NoErr
          => (result[w].kind = "json" \/ result[w].message = "Failed to encode response")
       /\ err[w] = NoErr => (answer[w].net = "ok" /\ answer[w].status = 200)
       /\ (answer[w].net = "ok" /\ answer[w].status # 200)
          => (err[w].kind = "status" /\ err[w].code = answer[w].status
              /\ err[w].body = answer[w].text /\ result[w].logs = <<>>)
       /\ answer[w].net # "ok"
          => (err[w].kind \in {"transport", "read"} /\ result[w].logs = <<>>)

C7_Witness ==
  \E w \in Workers :
    /\ req[w].kind = "query" /\ pc[w] = "done" /\ Len(sent[w]) = 1
    /\ answer[w].net = "ok" /\ answer[w].status = 201
    /\ err[w].code = 201 /\ err[w].body = "e1" /\ result[w].kind = "text"

\* C8: no operation retries: for an inbound request each backend request is
\* issued at most once, and the first failed backend call ends the inbound
\* request with a failure and no further backend request.
C8_NoRetry ==
  \A w \in Workers :
    /\ \A i, j \in 1..Len(sent[w]) :
         (sent[w][i].method = sent[w][j].method /\ sent[w][i].url = sent[w][j].url) => i = j
    /\ \A i \in 1..Len(outcome[w]) :
         outcome[w][i] = "fail"
         => (i = Len(sent[w]) /\ pc[w] = "done" /\ httpStatus[w] = 500)

C8_Witness ==
  \E w \in Workers :
    /\ pc[w] = "done" /\ outcome[w] = <<"ok", "fail">> /\ Len(sent[w]) = 2
    /\ httpStatus[w] = 500

\* C9: the process serves only after the startup probe succeeded: the health
\* endpoint answered 200 with a JSON body whose status is the string "ok".
\* After a transport error, another status, an unparsable body or another
\* status value it has exited with a failure and no request is ever served.
C9_ServeOnlyWhenHealthy ==
  /\ mainPc = "serving"
     => (probe.net = "ok" /\ probe.status = 200 /\ probe.json /\ probe.text = "ok")
  /\ (probe # NoAnswer
      /\ ~(probe.net = "ok" /\ probe.status = 200 /\ probe.json /\ probe.text = "ok"))
     => (mainPc = "exited" /\ exitCode = 1)
  /\ mainPc # "serving" => \A w \in Workers : pc[w] = "idle" /\ sent[w] = <<>>

C9_Witness ==
  /\ mainPc = "serving" /\ probe.status = 200 /\ probe.text = "ok"
  /\ \E w \in Workers : pc[w] # "idle" /\ sent[w] # <<>>

\* The probe's failure side of C9 is reached as well.
C9_ExitWitness ==
  mainPc = "exited" /\ probe.net = "ok" /\ probe.status = 200 /\ probe.json
  /\ probe.text = "degraded"

\* The GET /healthz calls main has made: it makes one, outside any loop.
MainAttempts == IF probe = NoAnswer THEN 0 ELSE 1

RequiredMissing ==
  \/ env.OPENOBSERVE_URL = ""
  \/ env.OPENOBSERVE_USER = ""
  \/ env.OPENOBSERVE_PASSWORD = ""
  \/ (env.SERVER_PORT # "" /\ env.SERVER_PORT \notin {"9098", "8080"})

Supplied(value, default) == IF value = "" THEN default ELSE value

\* C11: configuration loading fails, and the process exits without building
\* the client or serving, whenever the backend URL, the user or the password is
\* absent or empty or the port is no integer; with the required values present
\* it succeeds, the organization, the stream and the port taking their defaults
\* ("default", "default", "9098") where they were not supplied.
C11_ConfigRequiredOrExit ==
  mainPc # "start" =>
    /\ RequiredMissing =>
          /\ mainPc = "exited" /\ exitCode = 1
          /\ cfg = NoConfig /\ client = NoClient /\ probe = NoAnswer
          /\ \A w \in Workers : pc[w] = "idle" /\ sent[w] = <<>>
    /\ ~RequiredMissing =>
          /\ cfg.OpenObserveURL = env.OPENOBSERVE_URL
          /\ cfg.OpenObserveUser = env.OPENOBSERVE_USER
          /\ cfg.OpenObservePassword = env.OPENOBSERVE_PASSWORD
          /\ cfg.OpenObserveOrg = Supplied(env.OPENOBSERVE_ORG, "default")
          /\ cfg.OpenObserveStream = Supplied(env.OPENOBSERVE_STREAM, "default")
          /\ cfg.ServerPort = Supplied(env.SERVER_PORT, "9098")
          /\ client.org = cfg.OpenObserveOrg /\ client.stream = cfg.OpenObserveStream
          /\ client.user = cfg.OpenObserveUser /\ client.token = cfg.OpenObservePassword

\* A configuration that took the default port and organization and kept the
\* supplied stream goes on to serve; the failing side is C11_ExitWitness.
C11_Witness ==
  /\ env.SERVER_PORT = "" /\ env.OPENOBSERVE_ORG = "" /\ env.OPENOBSERVE_STREAM = "logs"
  /\ ~RequiredMissing /\ mainPc = "serving" /\ cfg.ServerPort = "9098"
  /\ cfg.OpenObserveOrg = "default" /\ cfg.OpenObserveStream = "logs"
  /\ client.org = "default" /\ client.stream = "logs"

C11_ExitWitness ==
  /\ env.OPENOBSERVE_URL # "" /\ env.OPENOBSERVE_USER # "" /\ env.OPENOBSERVE_PASSWORD # ""
  /\ env.SERVER_PORT = "http" /\ mainPc = "exited" /\ exitCode = 1 /\ client = NoClient

\* A query request that has been answered.
QueryAnswered(w) == req[w].kind = "query" /\ pc[w] = "done"

\* The request never got to the client: its body could not be read or decoded,
\* or its type is not a supported one.
QueryRejected(w) ==
  req[w].body \in {"unread", "bad", "badparams"} \/ req[w].name # "component"

\* C12: the log query endpoint answers every request with exactly one of 400,
\* 500 and 200.  400: the body is unreadable or no JSON, the type is not a
\* supported one (the message then names "component" as the supported type),
\* or the component payload does not decode; no backend request is made.
\* 500: the backend call failed, or the result could not be encoded.  200 with
\* the serialized result: the backend call succeeded; an empty list of logs is
\* a 200 too.
C12_QueryEndpointStatus ==
  \A w \in Workers :
    QueryAnswered(w) =>
      /\ httpStatus[w] \in {StatusBadRequest, StatusInternalServerError, StatusOK}
      /\ httpStatus[w] = StatusBadRequest <=> QueryRejected(w)
      /\ QueryRejected(w) => (sent[w] = <<>> /\ result[w].kind = "text")
      /\ (req[w].body = "json" /\ req[w].name # "component")
         => result[w].message = "Unknown log query type: " \o req[w].name
                                \o ". Supported types are \"component\""
      /\ httpStatus[w] = StatusInternalServerError
         <=> (Len(sent[w]) = 1
              /\ (err[w] # NoErr \/ result[w].message = "Failed to encode response"))
      /\ httpStatus[w] = StatusOK
         <=> (Len(sent[w]) = 1 /\ err[w] = NoErr /\ result[w].kind = "json")
      /\ httpStatus[w] = StatusOK
         => (/\ answer[w].net = "ok" /\ answer[w].status = StatusOK /\ answer[w].json
             /\ \E r \in SearchResults :
                  /\ result[w].logs = ConvertHits(r.hits)
                  /\ result[w].totalCount = r.total /\ result[w].took = r.took)
      /\ (Len(sent[w]) = 1 /\ err[w] # NoErr)
         => result[w].message = "Failed to fetch component logs"

\* A successful search without hits is answered 200 with an empty list.
C12_Witness ==
  \E w \in Workers :
    /\ QueryAnswered(w) /\ httpStatus[w] = StatusOK /\ result[w].kind = "json"
    /\ result[w].logs = <<>> /\ result[w].totalCount = 0 /\ err[w] = NoErr

\* The other answers of C12 are reached as well: an unknown type, and a result
\* that does not encode.
C12_UnknownTypeWitness ==
  \E w \in Workers :
    /\ QueryAnswered(w) /\ httpStatus[w] = StatusBadRequest /\ req[w].name = "trace"
    /\ result[w].message = "Unknown log query type: trace. Supported types are \"component\""

C12_EncodeFailureWitness ==
  \E w \in Workers :
    /\ QueryAnswered(w) /\ httpStatus[w] = StatusInternalServerError /\ err[w] = NoErr
    /\ answer[w].status = StatusOK /\ result[w].message = "Failed to encode response"

\* A decoded component query whose payload lacks a required field or whose
\* start time is later than its end time.
LacksRequired(p) ==
  \/ p.ProjectID = <<>>
  \/ p.EnvironmentID = <<>>
  \/ p.StartTime = ZeroTime
  \/ p.EndTime = ZeroTime
  \/ p.StartTime > p.EndTime

ComponentQuery(w) ==
  req[w].kind = "query" /\ req[w].body = "json" /\ req[w].name = "component"

\* C13, as stated: a component log query that lacks the project identifier,
\* the environment identifier, the start time or the end time, or whose start
\* time is later than its end time, is answered 400 and is never translated
\* into a backend search request.
C13_Original ==
  \A w \in Workers :
    (ComponentQuery(w) /\ LacksRequired(req[w].params))
    => (sent[w] = <<>> /\ (pc[w] = "done" => httpStatus[w] = StatusBadRequest))

\* What the handler does with such a query: it is translated and sent like any
\* other, here one without project identifier and end time, answered 200.
C13_Witness ==
  \E w \in Workers :
    /\ ComponentQuery(w) /\ req[w].params.ProjectID = <<>> /\ req[w].params.EndTime = ZeroTime
    /\ pc[w] = "done" /\ Len(sent[w]) = 1 /\ sent[w][1].doc.end_time = ZeroTime
    /\ httpStatus[w] = StatusOK

\* The same for a start time later than the end time.
C13_ReversedRangeWitness ==
  \E w \in Workers :
    /\ ComponentQuery(w) /\ req[w].params.StartTime > req[w].params.EndTime
    /\ pc[w] = "done" /\ Len(sent[w]) = 1
    /\ sent[w][1].doc.start_time > sent[w][1].doc.end_time
    /\ httpStatus[w] = StatusOK

\* C14: the alert-create endpoint answers 400 when the rule name of the path
\* is empty or the body does not decode, 500 when the backend create fails and
\* 201 with a confirmation message otherwise; whenever the backend is called,
\* the name in the document sent is the rule name of the path, whatever name
\* the body held.
C14_CreateEndpointStatus ==
  \A w \in Workers :
    req[w].kind = "create" =>
      /\ sent[w] # <<>>
         => (/\ Len(sent[w]) = 1 /\ sent[w][1].method = "POST"
             /\ sent[w][1].doc.name = req[w].ruleName
             /\ req[w].ruleName # "" /\ req[w].body = "json")
      /\ pc[w] = "done"
         => (/\ httpStatus[w] \in {StatusBadRequest, StatusInternalServerError, StatusCreated}
             /\ httpStatus[w] = StatusBadRequest
                <=> (req[w].ruleName = "" \/ req[w].body = "bad")
             /\ httpStatus[w] = StatusBadRequest => sent[w] = <<>>
             /\ httpStatus[w] = StatusInternalServerError
                <=> (Len(sent[w]) = 1 /\ err[w] # NoErr)
             /\ httpStatus[w] = StatusCreated
                <=> (Len(sent[w]) = 1 /\ err[w] = NoErr)
             /\ httpStatus[w] = StatusCreated
                => (result[w].kind = "json" /\ result[w].message = "Alert created successfully"))

\* A create whose body names the alert "b" under the path name "a" is sent as
\* "a" and answered 201.
C14_Witness ==
  \E w \in Workers :
    /\ req[w].kind = "create" /\ pc[w] = "done" /\ httpStatus[w] = StatusCreated
    /\ req[w].ruleName = "a" /\ req[w].name = "b" /\ sent[w][1].doc.name = "a"
    /\ HasName(alerts, "a")

\* C15: the alert-delete endpoint answers 400 when the rule name of the path
\* is empty, 200 with a confirmation message when DeleteAlert succeeds, and 500
\* in every other case: a name absent from the listing, a failing listing and
\* a failing delete call all get the same 500 response.
C15_DeleteEndpointStatus ==
  \A w \in Workers :
    (req[w].kind = "delete" /\ pc[w] = "done") =>
      /\ httpStatus[w] \in {StatusBadRequest, StatusOK, StatusInternalServerError}
      /\ httpStatus[w] = StatusBadRequest <=> req[w].ruleName = ""
      /\ httpStatus[w] = StatusBadRequest => (sent[w] = <<>> /\ err[w] = NoErr)
      /\ httpStatus[w] = StatusOK
         <=> (req[w].ruleName # "" /\ err[w] = NoErr /\ Len(sent[w]) = 2)
      /\ httpStatus[w] = StatusOK => result[w] = Message("json", "Alert deleted successfully")
      /\ httpStatus[w] = StatusInternalServerError <=> err[w] # NoErr
      /\ err[w] # NoErr
         => (/\ err[w].kind \in {"notfound", "transport", "read", "status", "unmarshal"}
             /\ result[w] = Message("text", "Failed to delete alert"))

\* A name that the listing does not hold is answered with the generic 500.
C15_Witness ==
  \E w \in Workers :
    /\ req[w].kind = "delete" /\ pc[w] = "done" /\ err[w].kind = "notfound"
    /\ answer[w].status = StatusOK /\ Len(sent[w]) = 1
    /\ httpStatus[w] = StatusInternalServerError
    /\ result[w] = Message("text", "Failed to delete alert")

\* So is a delete call the backend rejects.
C15_RejectedDeleteWitness ==
  \E w \in Workers :
    /\ req[w].kind = "delete" /\ pc[w] = "done" /\ err[w].kind = "status" /\ Len(sent[w]) = 2
    /\ httpStatus[w] = StatusInternalServerError
    /\ result[w] = Message("text", "Failed to delete alert")

\* A DeleteAlert that failed, and the two ways it can: the listing arrived and
\* does not hold the name, or a call of the backend failed (transport or read
\* error, rejected status, undecodable listing).
DeleteFailed(w) == req[w].kind = "delete" /\ pc[w] = "done" /\ err[w] # NoErr
NameAbsent(w) ==
  Len(sent[w]) = 1 /\ answer[w].net = "ok" /\ answer[w].status = StatusOK /\ answer[w].json
NotFoundText(name) ==
  <<"failed to find alert ", name, ": ", "alert ", name, " not found">>

\* C16: when deletion fails because the name is absent from the listing, what
\* DeleteAlert reports (its error, and the log record the handler writes with
\* it) differs from what it reports when the listing or the delete call fails
\* with a transport error or a rejected status, although both are answered
\* with the same HTTP status.
C16_NotFoundDistinguishable ==
  \A w \in Workers :
    DeleteFailed(w) =>
      /\ httpStatus[w] = StatusInternalServerError
      /\ result[w] = Message("text", "Failed to delete alert")
      /\ logged[w] # <<>>
      /\ logged[w][Len(logged[w])] =
           Log("handler", "Failed to delete alert", ErrorText(err[w], req[w].ruleName))
      /\ NameAbsent(w)
         => (/\ err[w].kind = "notfound"
             /\ logged[w][Len(logged[w])].attrs = NotFoundText(req[w].ruleName))
      /\ ~NameAbsent(w)
         => (/\ err[w].kind \in {"transport", "read", "status", "unmarshal"}
             /\ \A n \in Names \cup RuleNames :
                  logged[w][Len(logged[w])].attrs # NotFoundText(n))

\* A delete of a name the listing does not hold has been logged as not found.
C16_Witness ==
  \E w \in Workers :
    /\ DeleteFailed(w) /\ NameAbsent(w) /\ req[w].ruleName = "a"
    /\ logged[w] = <<Log("handler", "Failed to delete alert", NotFoundText("a"))>>

\* A delete whose listing was rejected has been logged with the status.
C16_RejectedWitness ==
  \E w \in Workers :
    /\ DeleteFailed(w) /\ ~NameAbsent(w) /\ Len(sent[w]) = 1 /\ answer[w].status = 401
    /\ logged[w] = <<Log("handler", "Failed to delete alert",
                         <<"failed to find alert ", "a", ": ",
                           "openobserve returned status ", 401, ": ", "e1">>)>>

\* ------------------------------------------------- claims on the builder
\* How a SQL reader splits the text into tokens: a single quote opens a
\* literal, a doubled single quote inside a literal is one quote of its value,
\* a single quote alone closes it.  With escapes, a backslash inside a literal
\* makes the next character part of the value; without, a backslash is an
\* ordinary character.  A literal the text does not close is "unterminated".
RECURSIVE Lex(_, _, _, _)
Lex(text, inLiteral, value, escapes) ==
  IF text = <<>>
  THEN IF inLiteral THEN <<[type |-> "unterminated", val |-> value]>> ELSE <<>>
  ELSE LET c == Head(text)
           rest == Tail(text)
       IN IF ~inLiteral
          THEN IF c = "'" THEN Lex(rest, TRUE, <<>>, escapes)
               ELSE <<[type |-> "text", val |-> <<c>>]>> \o Lex(rest, FALSE, <<>>, escapes)
          ELSE IF escapes /\ c = "\\" /\ rest # <<>>
               THEN Lex(Tail(rest), TRUE, Append(value, Head(rest)), escapes)
          ELSE IF c = "'" /\ rest # <<>> /\ Head(rest) = "'"
               THEN Lex(Tail(rest), TRUE, Append(value, "'"), escapes)
          ELSE IF c = "'"
               THEN <<[type |-> "literal", val |-> value]>> \o Lex(rest, FALSE, <<>>, escapes)
          ELSE Lex(rest, TRUE, Append(value, c), escapes)

Tokens(text, escapes) == Lex(text, FALSE, <<>>, escapes)

\* The tokens without the values of the literals: the shape of the statement.
Skeleton(tokens) ==
  [i \in DOMAIN tokens |->
     IF tokens[i].type = "text" THEN tokens[i] ELSE [type |-> tokens[i].type, val |-> <<>>]]

IsLiteral(token) == token.type = "literal"
LiteralValues(tokens) ==
  LET lits == SelectSeq(tokens, IsLiteral) IN [i \in DOMAIN lits |-> lits[i].val]

\* The same input with every character replaced by a letter.
Neutral(value) == [i \in DOMAIN value |-> "a"]
NeutralParams(p) ==
  [p EXCEPT !.ProjectID = Neutral(@), !.EnvironmentID = Neutral(@),
            !.ComponentIDs = [i \in DOMAIN @ |-> Neutral(@[i])],
            !.SearchPhrase = Neutral(@),
            !.LogLevels = [i \in DOMAIN @ |-> Neutral(@[i])]]

\* The value a reader gets for a literal written from the input value: the
\* value itself when it reads backslash escapes, the value with its
\* backslashes doubled when it does not.
ReadBack(value, escapes) ==
  IF escapes THEN value ELSE ReplaceAll(value, "\\", <<"\\", "\\">>)

\* The request-supplied strings of a log query, in the order the builder
\* writes them.
QueryValues(p, escapes) ==
  <<ReadBack(p.ProjectID, escapes), ReadBack(p.EnvironmentID, escapes)>>
  \o [i \in DOMAIN p.ComponentIDs |-> ReadBack(p.ComponentIDs[i], escapes)]
  \o (IF p.SearchPhrase # <<>>
      THEN << <<"%">> \o ReadBack(p.SearchPhrase, escapes) \o <<"%">> >> ELSE <<>>)
  \o [i \in DOMAIN p.LogLevels |-> ReadBack(p.LogLevels[i], escapes)]

BuiltQuery == builderPc = "built" /\ input.kind = "generateComponentLogsQuery"
BuiltAlert == builderPc = "built" /\ input.kind = "generateAlertConfig"
BuiltEscape == builderPc = "built" /\ input.kind = "escapeSQLString"

\* C17: every request-supplied string that reaches the generated SQL (project
\* id, environment id, every component id, search phrase, every log level,
\* alert search pattern) is inside a single-quoted literal, in escaped form,
\* every backslash and every single quote doubled: whatever the value, the
\* statement reads as the same tokens as with harmless values, each literal
\* closed by the quote the builder wrote and holding the value, for a reader
\* with and without backslash escapes.
C17_InputsStayInsideLiterals ==
  \A escapes \in BOOLEAN :
    /\ BuiltQuery
       => (/\ Skeleton(Tokens(output, escapes))
              = Skeleton(Tokens(generateComponentLogsQuery(NeutralParams(input.params),
                                                           input.stream).sql, escapes))
           /\ LiteralValues(Tokens(output, escapes)) = QueryValues(input.params, escapes))
    /\ BuiltAlert
       => (/\ Skeleton(Tokens(output, escapes))
              = Skeleton(Tokens(generateAlertConfig(
                                  LogAlertParams("a", Neutral(input.pattern), 10, 5, 1),
                                  input.stream).query, escapes))
           /\ LiteralValues(Tokens(output, escapes)) = <<ReadBack(input.pattern, escapes)>>)

\* A query built from a project id that is a backslash and a single quote,
\* used as component id, search phrase and log level too.
C17_Witness ==
  /\ BuiltQuery /\ input.params.ProjectID = <<"\\", "'">>
  /\ Len(input.params.ComponentIDs) = 2 /\ input.params.SearchPhrase = <<"\\", "'">>
  /\ Len(input.params.LogLevels) = 2
  /\ Len(LiteralValues(Tokens(output, TRUE))) = 7

\* The same for the search pattern of an alert.
C17_AlertWitness ==
  /\ BuiltAlert /\ input.pattern = <<"'", "\\">>
  /\ output = <<"SELECT count(*) as ", "match_count", " FROM \"", "default",
                "\" WHERE str_match(log, ", "'", "'", "'", "\\", "\\", "'", ")">>

\* strings.ReplaceAll(value, cc, c) for a doubled character cc.
RECURSIVE ReplaceAllPair(_, _)
ReplaceAllPair(value, c) ==
  IF value = <<>> THEN <<>>
  ELSE IF Len(value) >= 2 /\ value[1] = c /\ value[2] = c
       THEN <<c>> \o ReplaceAllPair(Tail(Tail(value)), c)
  ELSE <<Head(value)>> \o ReplaceAllPair(Tail(value), c)

\* The two substitutions of escapeSQLString undone, the later one first.
Unescape(value) == ReplaceAllPair(ReplaceAllPair(value, "'"), "\\")

\* C18: escaping round-trips: undoing the two substitutions on
\* escapeSQLString(s) (each doubled single quote back to one, each doubled
\* backslash back to one) gives s, so no two inputs have the same escaped form.
C18_EscapeRoundTrips ==
  BuiltEscape
  => (/\ Unescape(output) = input.pattern
      /\ \A t \in Strings : escapeSQLString(t) = output => t = input.pattern)

C18_Witness ==
  /\ BuiltEscape /\ input.pattern = <<"\\", "'">>
  /\ output = <<"\\", "\\", "'", "'">> /\ Unescape(output) = <<"\\", "'">>

Ascending == " ORDER BY _timestamp ASC"
Descending == " ORDER BY _timestamp DESC"
SortClauses(text) == {i \in 1..Len(text) : text[i] \in {Ascending, Descending}}

\* C19: the generated log query has exactly one sort clause on the timestamp,
\* ascending when the sort order is "asc" or "ASC" and descending for every
\* other value ("desc", the empty string, "banana", ...); the sort-order text
\* of the request is never itself copied into the SQL.
C19_OneSortClauseFromAllowList ==
  BuiltQuery
  => (/\ SortClauses(output) = {Len(output)}
      /\ \A i \in 1..(Len(output) - 1) :
           output[i] \notin {" ORDER BY _timestamp ", " ORDER BY "}
      /\ input.params.SortOrder \in {"asc", "ASC"} => output[Len(output)] = Ascending
      /\ input.params.SortOrder \notin {"asc", "ASC"} => output[Len(output)] = Descending
      /\ input.params.SortOrder # ""
         => \A i \in 1..Len(output) : output[i] # input.params.SortOrder)

C19_Witness ==
  /\ BuiltQuery /\ input.params.SortOrder = "banana"
  /\ output[Len(output)] = Descending /\ SortClauses(output) = {Len(output)}

\* C19's ascending side.
C19_AscendingWitness ==
  BuiltQuery /\ input.params.SortOrder = "ASC" /\ output[Len(output)] = Ascending

\* strings.ToLower on the sort orders of the model.
LowerCase(order) ==
  CASE order \in {"asc", "ASC", "Asc", "aSC"} -> "asc"
    [] order \in {"desc", "DESC"} -> "desc"
    [] OTHER -> order

\* C20, as stated: the sort direction is ascending exactly when the sort order
\* equals "asc" under case-insensitive comparison, so "Asc" and "aSC" sort
\* ascending too.
C20_Original ==
  BuiltQuery => (output[Len(output)] = Ascending <=> LowerCase(input.params.SortOrder) = "asc")

\* C20, amended: the sort direction is ascending exactly when the sort order
\* is "asc" or "ASC", compared case-sensitively; any other letter-case spelling
\* of it ("Asc", "aSC") sorts descending, like every other value.
C20_AscendingOnlyExactSpellings ==
  BuiltQuery
  => (/\ output[Len(output)] = Ascending <=> input.params.SortOrder \in {"asc", "ASC"}
      /\ (LowerCase(input.params.SortOrder) = "asc"
          /\ input.params.SortOrder \notin {"asc", "ASC"})
         => output[Len(output)] = Descending)

C20_Witness ==
  BuiltQuery /\ input.params.SortOrder = "Asc" /\ output[Len(output)] = Descending

\* C21: the size sent to the backend is 100 for every requested limit that is
\* zero or negative and the requested limit itself for every positive one,
\* however large (no upper cap); the offset ("from") sent is always 0.
C21_LimitDefaultNoCap ==
  BuiltQuery
  => (/\ input.params.Limit <= 0 => document.size = 100
      /\ input.params.Limit > 0 => document.size = input.params.Limit
      /\ document.size > 0
      /\ document.from = 0)

\* A negative limit became 100.
C21_Witness ==
  BuiltQuery /\ input.params.Limit = 0 - 5 /\ document.size = 100 /\ document.from = 0

\* A limit above any plausible cap went through unchanged.
C21_LargeLimitWitness ==
  BuiltQuery /\ input.params.Limit = 100000 /\ document.size = 100000

\* The filter of a log query as a SQL reader sees it: the tokens between WHERE
\* and the sort clause, split at the top-level ANDs into conditions.
TextToken(piece) == [type |-> "text", val |-> <<piece>>]
LiteralToken(value) == [type |-> "literal", val |-> value]

RECURSIVE Split(_, _, _)
Split(tokens, sep, current) ==
  IF tokens = <<>> THEN <<current>>
  ELSE IF Head(tokens) = TextToken(sep) THEN <<current>> \o Split(Tail(tokens), sep, <<>>)
  ELSE Split(Tail(tokens), sep, Append(current, Head(tokens)))

FilterTokens(text) ==
  LET tokens == Tokens(text, FALSE)
      where == CHOOSE i \in 1..Len(tokens) : tokens[i] = TextToken(" WHERE ")
  IN SubSeq(tokens, where + 1, Len(tokens) - 1)

FilterConditions(text) == Split(FilterTokens(text), " AND ", <<>>)

ProjectColumn == "kubernetes_labels_openchoreo_dev_project_uid"
EnvironmentColumn == "kubernetes_labels_openchoreo_dev_environment_uid"
ComponentColumn == "kubernetes_labels_openchoreo_dev_component_uid"

\* column = 'value' as the reader sees it.
EqualityTokens(column, value) ==
  <<TextToken(column), TextToken(" = "), LiteralToken(ReadBack(value, FALSE))>>

Mentions(condition, column) ==
  \E i \in 1..Len(condition) : condition[i] = TextToken(column)

\* A parenthesised group: what is between its parentheses, split at the ORs.
GroupMembers(condition) ==
  Split(SubSeq(condition, 2, Len(condition) - 1), " OR ", <<>>)

Supplies(flag) == IF flag THEN 1 ELSE 0

\* C22: with an empty or absent component-id list the filter has no condition
\* on the component id: it is the AND of the project and the environment
\* equality and of one condition per optional input that was supplied (search
\* phrase, log levels).  With a non-empty list it has exactly one condition on
\* the component id, the third, a parenthesised group of one equality per
\* listed id joined by OR, in the order of the list.
C22_ComponentFilterOnlyWhenListed ==
  BuiltQuery
  => LET conditions == FilterConditions(output)
         ids == input.params.ComponentIDs
         onComponent == {i \in 1..Len(conditions) : Mentions(conditions[i], ComponentColumn)}
     IN /\ Len(conditions) = 2 + Supplies(ids # <<>>) + Supplies(input.params.SearchPhrase # <<>>)
                              + Supplies(input.params.LogLevels # <<>>)
        /\ conditions[1] = EqualityTokens(ProjectColumn, input.params.ProjectID)
        /\ conditions[2] = EqualityTokens(EnvironmentColumn, input.params.EnvironmentID)
        /\ \A i \in 1..Len(conditions) : conditions[i] # <<TextToken("("), TextToken(")")>>
        /\ ids = <<>> => onComponent = {}
        /\ ids # <<>>
           => (/\ onComponent = {3}
               /\ Head(conditions[3]) = TextToken("(")
               /\ conditions[3][Len(conditions[3])] = TextToken(")")
               /\ GroupMembers(conditions[3])
                  = [i \in 1..Len(ids) |-> EqualityTokens(ComponentColumn, ids[i])])

\* No component ids, no search phrase, no log levels: the filter is the
\* project and the environment equality only, and the query is the default
\* one (size 100, descending).
C22_Witness ==
  /\ BuiltQuery /\ input.params.ComponentIDs = <<>> /\ input.params.SearchPhrase = <<>>
  /\ input.params.LogLevels = <<>> /\ input.params.ProjectID = <<"p">>
  /\ Len(FilterConditions(output)) = 2
  /\ document.size = 100 /\ output[Len(output)] = Descending

\* Two component ids, the second with a quote in it: one group of two
\* equalities.
C22_GroupWitness ==
  /\ BuiltQuery /\ input.params.ComponentIDs = << <<"a">>, <<"a", "'">> >>
  /\ Len(GroupMembers(FilterConditions(output)[3])) = 2

\* text LIKE pattern as SQL defines it: % stands for any run of characters, _
\* for any one character, every other character for itself.
RECURSIVE Like(_, _)
Like(text, pattern) ==
  IF pattern = <<>> THEN text = <<>>
  ELSE IF Head(pattern) = "%"
       THEN Like(text, Tail(pattern)) \/ (text # <<>> /\ Like(Tail(text), pattern))
  ELSE IF text = <<>> THEN FALSE
  ELSE IF Head(pattern) = "_" THEN Like(Tail(text), Tail(pattern))
  ELSE Head(pattern) = Head(text) /\ Like(Tail(text), Tail(pattern))

\* strings.Contains(text, phrase).
Contains(text, phrase) ==
  \E i \in 0..(Len(text) - Len(phrase)) : SubSeq(text, i + 1, i + Len(phrase)) = phrase

\* The texts of the log records the backend holds.
LogTexts == StringsOver(PhraseChars, MaxStrLen)

\* The conditions of the filter on the log text, and the pattern of one.
OnLogText(conditions) ==
  {i \in 1..Len(conditions) : Head(conditions[i]) = TextToken("log LIKE ")}
LikePattern(condition) == condition[2].val

\* C23, as stated: with a search phrase the filter has one condition on the
\* log text, and it selects exactly the records whose text contains the phrase
\* as a literal substring, also when the phrase contains % or _; with an empty
\* phrase there is no condition on the log text.
C23_Original ==
  BuiltQuery
  => LET conditions == FilterConditions(output)
         phrase == input.params.SearchPhrase
     IN /\ phrase = <<>> => OnLogText(conditions) = {}
        /\ phrase # <<>> => Cardinality(OnLogText(conditions)) = 1
        /\ (phrase # <<>> /\ phrase \in Phrases)
           => \A i \in OnLogText(conditions) : \A text \in LogTexts :
                Like(text, LikePattern(conditions[i])) <=> Contains(text, phrase)

\* The phrase "_" selects the record "a", which does not contain it.
C23_Witness ==
  /\ BuiltQuery /\ input.params.SearchPhrase = <<"_">>
  /\ \E i \in OnLogText(FilterConditions(output)) :
       /\ LikePattern(FilterConditions(output)[i]) = <<"%", "_", "%">>
       /\ Like(<<"a">>, LikePattern(FilterConditions(output)[i]))
       /\ ~Contains(<<"a">>, <<"_">>)

BuiltEntries == builderPc = "built" /\ input.kind = "GetComponentLogs"

\* The text fields of a ComponentLogsEntry and the member of the hit document
\* each is taken from.
MemberOf ==
  [Log |-> "log", LogLevel |-> "logLevel", ComponentID |-> "component_uid",
   EnvironmentID |-> "environment_uid", ProjectID |-> "project_uid",
   Namespace |-> "namespace_name", PodID |-> "pod_id", ContainerName |-> "container_name"]

\* C24: result normalization is total and tolerant field by field.  For every
\* hit document there is one entry, at the hit's position; each text field of
\* the entry is the hit's value when that is a string and the empty string when
\* the key is missing or holds another type; the label map holds exactly the
\* string-valued entries of the hit's label object, and is empty when there is
\* none; a missing or non-numeric timestamp gives the epoch; and an entry
\* depends on its own hit only, so a malformed hit removes no other hit.
C24_NormalizationTotal ==
  BuiltEntries
  => (/\ Len(output) = Len(input.hits)
      /\ \A i \in 1..Len(input.hits) :
           LET hit == input.hits[i]
               entry == output[i]
           IN /\ \A f \in DOMAIN MemberOf :
                   entry[f] = IF hit[MemberOf[f]].t = "string" THEN hit[MemberOf[f]].s ELSE ""
              /\ DOMAIN entry.Labels
                 = IF hit.labels.t = "map"
                   THEN {k \in DOMAIN hit.labels.m : hit.labels.m[k].t = "string"}
                   ELSE {}
              /\ \A k \in DOMAIN entry.Labels : entry.Labels[k] = hit.labels.m[k].s
              /\ hit.timestamp.t = "float64" => entry.Timestamp = hit.timestamp.n
              /\ hit.timestamp.t # "float64" => entry.Timestamp = 0
              /\ entry = ConvertHits(<<hit>>)[1])

\* A hit with a string for a timestamp and for its label object, followed by a
\* hit with a label object of three entries, one of them a number: two entries,
\* the first at the epoch with no labels, the second with the two string
\* labels.
C24_Witness ==
  /\ BuiltEntries /\ Len(input.hits) = 2
  /\ input.hits[1].timestamp = Str("late") /\ input.hits[1].labels.t = "string"
  /\ input.hits[1].log = Num(5) /\ input.hits[2].log = Absent
  /\ input.hits[2].labels = Labels([app |-> Str("x"), n |-> Num(3), tier |-> Str("")])
  /\ Len(output) = 2
  /\ output[1].Timestamp = 0 /\ output[1].Labels = <<>> /\ output[1].Log = ""
  /\ output[2].Labels = [app |-> "x", tier |-> ""] /\ output[2].Log = ""

\* C25: for every alert definition the document sent to the backend has the
\* definition's name; a count query over the configured stream whose match
\* literal is the escaped search pattern between single quotes; a condition
\* that compares the count with the operator ">" against the definition's
\* threshold; the definition's duration and frequency unchanged; the realtime
\* flag fixed to off; and a destination list of exactly the one well-known
\* destination.
C25_AlertDocument ==
  BuiltAlert
  => (/\ document.name = input.alert.Name
      /\ document.stream_name = input.stream
      /\ document.query
         = <<"SELECT count(*) as ", "match_count", " FROM \"", input.stream,
             "\" WHERE str_match(log, ", "'">>
           \o escapeSQLString(input.alert.SearchPattern) \o <<"'", ")">>
      /\ Tokens(document.query, FALSE)[6] = LiteralToken(ReadBack(input.alert.SearchPattern, FALSE))
      /\ Len(Tokens(document.query, FALSE)) = 7
      /\ document.condition.column = "match_count"
      /\ document.condition.operator = ">"
      /\ document.condition.value = input.alert.ThresholdValue
      /\ document.duration = input.alert.Duration
      /\ document.frequency = input.alert.Frequency
      /\ document.is_realtime = "no"
      /\ document.destinations = <<"openchoreo_alerts">>
      /\ document.alert_type = "scheduled")

\* An alert named "a" on the stream "logs" with a negative threshold and a
\* pattern that holds a single quote.
C25_Witness ==
  /\ BuiltAlert /\ input.alert = LogAlertParams("a", <<"a", "'">>, 0 - 1, 5, 60)
  /\ input.stream = "logs"
  /\ document.name = "a" /\ document.condition.value = 0 - 1
  /\ document.query = <<"SELECT count(*) as ", "match_count", " FROM \"", "logs",
                        "\" WHERE str_match(log, ", "'", "a", "'", "'", "'", ")">>

\* The backend requests of the model, by method and path.
SearchPost(r) == r.method = "POST" /\ r.url[3] = "_search"
AlertPost(r) == r.method = "POST" /\ r.url[3] = "v2/alerts"
ListingGet(r) == r.method = "GET" /\ r.url[3] = "v2/alerts"
AlertDelete(r) == r.method = "DELETE" /\ r.url[3] = "v2/alerts/"

\* C26: every request the Client sends (search POST, alert create POST, alert
\* listing GET, alert DELETE) carries as basic-auth credentials the user and
\* the password the client was constructed with, those of the environment at
\* startup, whatever the inbound request: none is sent without them or with
\* others.
C26_FixedCredentials ==
  \A w \in Workers : \A i \in 1..Len(sent[w]) :
    /\ SearchPost(sent[w][i]) \/ AlertPost(sent[w][i]) \/ ListingGet(sent[w][i])
       \/ AlertDelete(sent[w][i])
    /\ sent[w][i].user = client.user /\ sent[w][i].token = client.token
    /\ sent[w][i].user = env.OPENOBSERVE_USER /\ sent[w][i].token = env.OPENOBSERVE_PASSWORD
    /\ sent[w][i].user # "" /\ sent[w][i].token # ""

\* A delete that sent the listing GET and the DELETE while the other worker's
\* search POST is in flight, all three with the configured credentials.
C26_Witness ==
  \E w \in Workers, v \in Workers :
    /\ Len(sent[w]) = 2 /\ ListingGet(sent[w][1]) /\ AlertDelete(sent[w][2])
    /\ Len(sent[v]) = 1 /\ SearchPost(sent[v][1])
    /\ \A r \in {sent[w][1], sent[w][2], sent[v][1]} : r.user = "root" /\ r.token = "pw"

\* The same for the create POST.
C26_CreateWitness ==
  \E w \in Workers :
    /\ Len(sent[w]) = 1 /\ AlertPost(sent[w][1])
    /\ sent[w][1].user = "root" /\ sent[w][1].token = "pw"

\* What one goroutine holds of the request it serves.
Local(w) ==
  <<pc[w], req[w], sent[w], outcome[w], answer[w], alertID[w], err[w], httpStatus[w],
    result[w], logged[w], cancelled[w]>>

\* The backend requests of worker w are those its own inbound request and the
\* answers to it determine.
OwnRequests(w) ==
  CASE req[w].kind = "query" ->
         sent[w] \in {<<>>, <<Request(client, "POST", "_search", 0,
                                     generateComponentLogsQuery(req[w].params, client.stream))>>}
    [] req[w].kind = "create" ->
         \/ sent[w] = <<>>
         \/ \E body \in CreateBodies :
              /\ body.decodes /\ body.params.Name = req[w].name
              /\ sent[w] = <<Request(client, "POST", "v2/alerts", 0,
                                     generateAlertConfig(WithRuleName(body.params, req[w].ruleName),
                                                         client.stream))>>
    [] req[w].kind = "delete" ->
         /\ Len(sent[w]) <= 2
         /\ Len(sent[w]) >= 1 => (ListingGet(sent[w][1]) /\ sent[w][1].id = 0)
         /\ Len(sent[w]) = 2 => (AlertDelete(sent[w][2]) /\ sent[w][2].id = alertID[w])
         /\ \A i \in 1..Len(sent[w]) :
              sent[w][i].url = <<client.baseURL, "/api/", sent[w][i].url[3], client.org>>
    [] OTHER -> sent[w] = <<>>

\* The response of worker w is the one the answer to its own last backend
\* request determines.
OwnResponse(w) ==
  (pc[w] = "done" /\ sent[w] # <<>>)
  => CASE req[w].kind = "query" ->
            \E a \in SearchAnswers :
              /\ Received(a) = answer[w]
              /\ <<httpStatus[w], result[w]>>
                 = LogsQueryResponse(executeSearchQuery(a)[1], executeSearchQuery(a)[2])
       [] req[w].kind = "create" ->
            <<httpStatus[w], result[w]>> = CreateAlertResponse(CreateAlertResult(answer[w]))
       [] req[w].kind = "delete" /\ Len(sent[w]) = 2 ->
            <<httpStatus[w], result[w]>> = DeleteAlertResponse(DeleteAlertResult(answer[w]))
       [] OTHER ->
            /\ err[w] # NoErr
            /\ <<httpStatus[w], result[w]>> = DeleteAlertResponse(err[w])

\* C27: under every interleaving of the concurrently served requests, no field
\* of the shared Client changes once it is constructed; a step of one request
\* changes nothing that another request holds; and the backend requests issued
\* for an inbound request, and its response, are determined by that request's
\* own input and the backend's answers to it: a delete always starts with its
\* own listing GET and deletes the id that listing resolved (no alert cache),
\* and a goroutine that took no request yet holds nothing of an earlier one.
C27_NoSharedMutableState ==
  /\ [][mainPc # "start" => client' = client /\ cfg' = cfg]_vars
  /\ [][\A w \in Workers :
          Local(w)' # Local(w) => \A v \in Workers \ {w} : Local(v)' = Local(v)]_vars
  /\ [](\A w \in Workers : OwnRequests(w) /\ OwnResponse(w))
  /\ [](\A w \in Workers :
          pc[w] = "idle"
          => Local(w) = <<"idle", NoReq, <<>>, <<>>, NoneReceived, 0, NoErr, 0, NoResult, <<>>,
                          FALSE>>)

\* Two deletes in flight at once, each past its own listing, the DELETE of each
\* for the id its own listing resolved, and the ids differ.
C27_Witness ==
  \E w \in Workers, v \in Workers :
    /\ w # v /\ pc[w] = "DeleteAlert" /\ pc[v] = "DeleteAlert"
    /\ sent[w][2].id = alertID[w] /\ sent[v][2].id = alertID[v]
    /\ alertID[w] # alertID[v]
    /\ client = NewClient("http://oo/", "default", "logs", "root", "pw")

\* Worker w's backend call returns in this step.
CallReturns(w) == pc[w] \in InFlight /\ pc'[w] # pc[w]

\* C28: when the context of the inbound request is cancelled while a backend
\* call of that request is in flight, the call is aborted (Do returns the
\* context's error), the operation returns a failure, and no further backend
\* request is issued for that inbound request; in particular a delete whose
\* listing call was cancelled never issues the DELETE.
C28_CancelAbortsAndStops ==
  /\ [][\A w \in Workers :
          (cancelled[w] /\ CallReturns(w))
          => (/\ pc'[w] = "done"
              /\ answer'[w].net = "transport"
              /\ err'[w] # NoErr /\ err'[w].kind = "transport"
              /\ outcome'[w][Len(outcome'[w])] = "fail"
              /\ sent'[w] = sent[w]
              /\ httpStatus'[w] = StatusInternalServerError
              /\ result'[w].kind = "text")]_vars
  /\ [][\A w \in Workers :
          (cancelled[w] /\ pc[w] = "getAlertIDByName" /\ pc'[w] # pc[w])
          => (DeletesIssued(w)' = {} /\ Len(sent'[w]) = 1
              /\ err'[w].wraps = "failed to find alert")]_vars
  /\ [][\A w \in Workers : cancelled[w] => sent'[w] \in {sent[w], <<>>}]_vars
  /\ [](\A w \in Workers : cancelled[w] => (pc[w] \in InFlight \/ (pc[w] = "done" /\ err[w] # NoErr)))

\* A delete of a name the backend lists, cancelled during its listing call:
\* the operation failed and no DELETE was issued.
C28_Witness ==
  \E w \in Workers :
    /\ cancelled[w] /\ req[w].kind = "delete" /\ pc[w] = "done"
    /\ HasName(alerts, req[w].ruleName)
    /\ Len(sent[w]) = 1 /\ DeletesIssued(w) = {}
    /\ err[w].kind = "transport" /\ err[w].wraps = "failed to find alert"
    /\ httpStatus[w] = StatusInternalServerError

\* A search cancelled in flight: it failed.
C28_SearchWitness ==
  \E w \in Workers :
    /\ cancelled[w] /\ req[w].kind = "query" /\ pc[w] = "done"
    /\ Len(sent[w]) = 1 /\ err[w].kind = "transport" /\ httpStatus[w] = StatusInternalServerError

\* The inbound request of worker w passed every check of its handler.
Validated(w) ==
  CASE req[w].kind = "query" -> req[w].body = "json" /\ req[w].name = "component"
    [] req[w].kind = "create" -> req[w].ruleName # "" /\ req[w].body = "json"
    [] req[w].kind = "delete" -> req[w].ruleName # ""
    [] OTHER -> FALSE

\* The inbound requests the handlers reject.
Rejections ==
  {"Failed to read request body", "Invalid request body", "Invalid component logs params",
   "Rule name is required",
   "Unknown log query type: trace. Supported types are \"component\"",
   "Unknown log query type: . Supported types are \"component\""}

\* C29: every inbound request answered 400 (a query body that cannot be read
\* or decoded, an unknown query type, an undecodable component payload, an
\* empty rule name, an undecodable alert body) caused no backend request at
\* all: the first backend request of a request is issued only once all its
\* checks passed, and a request that issued one is never answered 400.
C29_RejectedBeforeAnyBackendCall ==
  /\ [](\A w \in Workers :
          httpStatus[w] = StatusBadRequest
          => (/\ sent[w] = <<>> /\ outcome[w] = <<>> /\ answer[w] = NoneReceived
              /\ pc[w] = "done" /\ ~Validated(w)
              /\ result[w].kind = "text" /\ result[w].message \in Rejections))
  /\ [](\A w \in Workers : sent[w] # <<>> => (Validated(w) /\ httpStatus[w] # StatusBadRequest))
  /\ [](\A w \in Workers : (pc[w] = "done" /\ ~Validated(w)) => httpStatus[w] = StatusBadRequest)
  /\ [][\A w \in Workers : (sent[w] = <<>> /\ sent'[w] # <<>>) => Validated(w)']_vars

\* A component query whose payload does not decode, answered 400 while the
\* other worker's delete is in flight: the rejected one sent nothing.
C29_Witness ==
  \E w \in Workers, v \in Workers :
    /\ req[w].kind = "query" /\ req[w].body = "badparams" /\ pc[w] = "done"
    /\ httpStatus[w] = StatusBadRequest /\ sent[w] = <<>>
    /\ result[w].message = "Invalid component logs params"
    /\ pc[v] = "DeleteAlert" /\ Len(sent[v]) = 2

\* A create with a decodable body and no rule name.
C29_RuleNameWitness ==
  \E w \in Workers :
    /\ req[w].kind = "create" /\ req[w].ruleName = "" /\ req[w].body = "json"
    /\ httpStatus[w] = StatusBadRequest /\ sent[w] = <<>>

CreateAnswered(w) == pc[w] = "CreateAlert" /\ pc'[w] # "CreateAlert"
Accepted(a) == a.net = "ok" /\ a.status \in {StatusOK, StatusCreated}

\* C30: CreateAlert issues exactly one alert POST and never a listing GET,
\* whether or not the backend already lists an alert of that name, and reports
\* what the backend answered: the adapter neither refuses nor merges a create
\* of a duplicate name.  A delete of a name issues at most one DELETE, for the
\* first alert of that name in its listing, and the DELETE touches no other
\* alert: after two accepted creates of one name and one delete of it, the
\* second alert of that name is still there.
C30_CreateNeverLooksUpDeleteTakesFirst ==
  /\ [](\A w \in Workers :
          req[w].kind = "create"
          => (Len(sent[w]) <= 1 /\ \A i \in 1..Len(sent[w]) : AlertPost(sent[w][i])))
  /\ [][\A w \in Workers :
          CreateAnswered(w)
          => (/\ Len(sent[w]) = 1 /\ sent'[w] = sent[w]
              /\ Accepted(answer'[w]) <=> httpStatus'[w] = StatusCreated
              /\ Accepted(answer'[w])
                 => (/\ err'[w] = NoErr
                     /\ nextId' = nextId + 1
                     /\ alerts' = Append(alerts, Alert(nextId, req[w].ruleName))))]_vars
  /\ [](\A w \in Workers :
          req[w].kind = "delete"
          => (/\ Cardinality(DeletesIssued(w)) <= 1
              /\ \A i \in DeletesIssued(w) : i = 2 /\ sent[w][i].id = alertID[w]))
  /\ [][\A w \in Workers :
          (ListingAnswered(w) /\ pc'[w] = "DeleteAlert")
          => (/\ HasName(alerts, req[w].ruleName)
              /\ alertID'[w] = alerts[FirstIndex(alerts, req[w].ruleName)].alert_id)]_vars
  /\ [][\A w \in Workers :
          DeleteAnswered(w) => alerts' \in {alerts, RemoveID(alerts, alertID[w])}]_vars

\* The backend held two alerts named "a", both posted by the adapter; a delete
\* of "a" resolved the first, issued one DELETE for it and was answered 200:
\* the second is still listed.
C30_Witness ==
  \E w \in Workers :
    /\ req[w].kind = "delete" /\ req[w].ruleName = "a" /\ pc[w] = "done"
    /\ err[w] = NoErr /\ httpStatus[w] = StatusOK
    /\ Cardinality(DeletesIssued(w)) = 1 /\ sent[w][2].id = 1 /\ alertID[w] = 1
    /\ alerts = <<Alert(2, "a")>> /\ nextId = 3

\* A create of "a" answered 201 while the backend already listed an alert
\* named "a": one POST, no GET, and now two alerts of that name.
C30_DuplicateWitness ==
  \E w \in Workers :
    /\ req[w].kind = "create" /\ pc[w] = "done" /\ httpStatus[w] = StatusCreated
    /\ Len(sent[w]) = 1 /\ AlertPost(sent[w][1])
    /\ alerts = <<Alert(1, "a"), Alert(2, "a")>>

============================================================================
